---- MODULE Spec2Model ----
(***************************************************************************)
(* Model of the LLM invocation layer of Smart-Terraform-Tool:              *)
(*   app/llm_enhancement/base.py      LLMComponentBase (the Invocation Core)*)
(*   app/llm_enhancement/config.py    LLMEnhancementConfig                 *)
(*   app/llm_enhancement/{parsers,generators,validators,optimizers}/*.py   *)
(*                                     the four domain components          *)
(*                                                                         *)
(* Python text is a sequence of one-character strings, so that slicing,    *)
(* len(), json.dumps and json.loads are computed character by character.   *)
(* Python values are tagged records:                                       *)
(*   None  [t |-> "None"]            bool  [t |-> "bool", b |-> ...]       *)
(*   int   [t |-> "int", n |-> ...]  float [t |-> "float", repr |-> text]  *)
(*   str   [t |-> "str", s |-> text] list  [t |-> "list", items |-> <<v>>] *)
(*   dict  [t |-> "dict", items |-> << <<key text, value>>, ... >>]        *)
(* A dict keeps its insertion order, as Python's dict does.                *)
(***************************************************************************)
EXTENDS Integers, Sequences, FiniteSets, TLC

\* ------------------------------------------------------------------------
\* Python values
\* ------------------------------------------------------------------------
PyNone == [t |-> "None"]
PyBool(b) == [t |-> "bool", b |-> b]
PyInt(n) == [t |-> "int", n |-> n]
PyFloat(r) == [t |-> "float", repr |-> r]
PyStr(s) == [t |-> "str", s |-> s]
PyList(items) == [t |-> "list", items |-> items]
PyDict(items) == [t |-> "dict", items |-> items]

\* the text made of n copies of the character ch
Rep(ch, n) == [i \in 1..n |-> ch]

\* keys of a dict, in insertion order
DictKeys(d) == [i \in 1..Len(d.items) |-> d.items[i][1]]
DictKeySet(d) == {d.items[i][1] : i \in 1..Len(d.items)}
DictHas(d, k) == k \in DictKeySet(d)
DictGet(d, k) == d.items[CHOOSE i \in 1..Len(d.items) : d.items[i][1] = k][2]

\* d[k] = v on an insertion-ordered dict: an existing key keeps its place
DictSetItems(items, k, v) ==
    IF \E i \in 1..Len(items) : items[i][1] = k
    THEN [i \in 1..Len(items) |-> IF items[i][1] = k THEN <<k, v>> ELSE items[i]]
    ELSE Append(items, <<k, v>>)

\* ------------------------------------------------------------------------
\* json.dumps with its default arguments (separators ", " and ": ",
\* ensure_ascii; every character of the model is ASCII)
\* ------------------------------------------------------------------------
Digit == <<"0", "1", "2", "3", "4", "5", "6", "7", "8", "9">>

RECURSIVE NatToText(_)
NatToText(n) == IF n < 10 THEN <<Digit[n + 1]>>
                ELSE NatToText(n \div 10) \o <<Digit[(n % 10) + 1]>>

IntToText(n) == IF n < 0 THEN <<"-">> \o NatToText(0 - n) ELSE NatToText(n)

\* the escape json.dumps writes for one character of a string
EscapeChar(c) ==
    CASE c = "\"" -> <<"\\", "\"">>
      [] c = "\\" -> <<"\\", "\\">>
      [] c = "\n" -> <<"\\", "n">>
      [] c = "\t" -> <<"\\", "t">>
      [] c = "\r" -> <<"\\", "r">>
      [] OTHER    -> <<c>>

RECURSIVE EscapeText(_)
EscapeText(s) == IF s = <<>> THEN <<>>
                 ELSE EscapeChar(Head(s)) \o EscapeText(Tail(s))

QuoteText(s) == <<"\"">> \o EscapeText(s) \o <<"\"">>

RECURSIVE Dumps(_)
RECURSIVE DumpsList(_)
RECURSIVE DumpsItems(_)
DumpsList(items) ==
    IF items = <<>> THEN <<>>
    ELSE Dumps(Head(items))
         \o (IF Len(items) > 1 THEN <<",", " ">> ELSE <<>>)
         \o DumpsList(Tail(items))
DumpsItems(items) ==
    IF items = <<>> THEN <<>>
    ELSE QuoteText(Head(items)[1]) \o <<":", " ">> \o Dumps(Head(items)[2])
         \o (IF Len(items) > 1 THEN <<",", " ">> ELSE <<>>)
         \o DumpsItems(Tail(items))
Dumps(v) ==
    CASE v.t = "None"  -> <<"n", "u", "l", "l">>
      [] v.t = "bool"  -> IF v.b THEN <<"t", "r", "u", "e">>
                          ELSE <<"f", "a", "l", "s", "e">>
      [] v.t = "int"   -> IntToText(v.n)
      [] v.t = "float" -> v.repr
      [] v.t = "str"   -> QuoteText(v.s)
      [] v.t = "list"  -> <<"[">> \o DumpsList(v.items) \o <<"]">>
      [] v.t = "dict"  -> <<"{">> \o DumpsItems(v.items) \o <<"}">>

\* ------------------------------------------------------------------------
\* json.loads (strict mode).  A parse step returns [ok, v, i]: whether it
\* succeeded, the value read and the index of the first unread character.
\* Texts of the model hold no \uXXXX escape.
\* ------------------------------------------------------------------------
ParseFail == [ok |-> FALSE, v |-> PyNone, i |-> 0]
ParseOk(v, i) == [ok |-> TRUE, v |-> v, i |-> i]

At(s, i) == IF i >= 1 /\ i <= Len(s) THEN s[i] ELSE "EOF"

IsWs(c) == c \in {" ", "\n", "\t", "\r"}
IsDigit(c) == c \in {"0", "1", "2", "3", "4", "5", "6", "7", "8", "9"}
DigitVal(c) == CHOOSE d \in 0..9 : Digit[d + 1] = c

RECURSIVE SkipWs(_, _)
SkipWs(s, i) == IF IsWs(At(s, i)) THEN SkipWs(s, i + 1) ELSE i

RECURSIVE SkipDigits(_, _)
SkipDigits(s, i) == IF IsDigit(At(s, i)) THEN SkipDigits(s, i + 1) ELSE i

RECURSIVE DigitsVal(_, _, _)
DigitsVal(s, i, j) == IF j < i THEN 0
                      ELSE DigitsVal(s, i, j - 1) * 10 + DigitVal(s[j])

\* does text lit occur in s at index i
Matches(s, i, lit) == /\ i + Len(lit) - 1 <= Len(s)
                      /\ \A k \in 1..Len(lit) : s[i + k - 1] = lit[k]

\* the character an escape letter stands for ("" when it is no escape)
Unescape(c) ==
    CASE c = "\"" -> "\""
      [] c = "\\" -> "\\"
      [] c = "/"  -> "/"
      [] c = "n"  -> "\n"
      [] c = "t"  -> "\t"
      [] c = "r"  -> "\r"
      [] OTHER    -> ""

\* scan a string body from index j (just after the opening quote)
RECURSIVE ScanString(_, _, _)
ScanString(s, j, acc) ==
    LET c == At(s, j) IN
    CASE c = "EOF" -> ParseFail
      [] c = "\"" -> ParseOk(acc, j + 1)
      [] c = "\\" -> IF Unescape(At(s, j + 1)) = "" THEN ParseFail
                     ELSE ScanString(s, j + 2, Append(acc, Unescape(At(s, j + 1))))
      [] c \in {"\n", "\t", "\r"} -> ParseFail
      [] OTHER -> ScanString(s, j + 1, Append(acc, c))

ParseNumber(s, i) ==
    LET neg     == At(s, i) = "-"
        j0      == IF neg THEN i + 1 ELSE i
        intEnd  == IF At(s, j0) = "0" THEN j0 + 1 ELSE SkipDigits(s, j0)
        hasFrac == At(s, intEnd) = "." /\ IsDigit(At(s, intEnd + 1))
        fracEnd == IF hasFrac THEN SkipDigits(s, intEnd + 1) ELSE intEnd
        e1      == IF At(s, fracEnd + 1) \in {"+", "-"} THEN fracEnd + 2
                   ELSE fracEnd + 1
        hasExp  == At(s, fracEnd) \in {"e", "E"} /\ IsDigit(At(s, e1))
        expEnd  == IF hasExp THEN SkipDigits(s, e1) ELSE fracEnd
        mag     == DigitsVal(s, j0, intEnd - 1)
    IN  IF ~IsDigit(At(s, j0)) THEN ParseFail
        ELSE IF hasFrac \/ hasExp
             THEN ParseOk(PyFloat(SubSeq(s, i, expEnd - 1)), expEnd)
             ELSE ParseOk(PyInt(IF neg THEN 0 - mag ELSE mag), intEnd)

RECURSIVE ParseValue(_, _)
RECURSIVE ParseMembers(_, _, _)
RECURSIVE ParseElements(_, _, _)

\* members of an object from index j, which must hold the quote of a key
ParseMembers(s, j, acc) ==
    IF At(s, j) # "\"" THEN ParseFail
    ELSE LET k == ScanString(s, j + 1, <<>>) IN
         IF ~k.ok THEN ParseFail
         ELSE LET c == SkipWs(s, k.i) IN
              IF At(s, c) # ":" THEN ParseFail
              ELSE LET v == ParseValue(s, SkipWs(s, c + 1)) IN
                   IF ~v.ok THEN ParseFail
                   ELSE LET e    == SkipWs(s, v.i)
                            acc2 == DictSetItems(acc, k.v, v.v)
                        IN  CASE At(s, e) = "}" -> ParseOk(PyDict(acc2), e + 1)
                              [] At(s, e) = "," -> ParseMembers(s, SkipWs(s, e + 1), acc2)
                              [] OTHER -> ParseFail

\* elements of an array from index j
ParseElements(s, j, acc) ==
    LET v == ParseValue(s, j) IN
    IF ~v.ok THEN ParseFail
    ELSE LET e == SkipWs(s, v.i) IN
         CASE At(s, e) = "]" -> ParseOk(PyList(Append(acc, v.v)), e + 1)
           [] At(s, e) = "," -> ParseElements(s, SkipWs(s, e + 1), Append(acc, v.v))
           [] OTHER -> ParseFail

ParseValue(s, i) ==
    LET c == At(s, i) IN
    CASE c = "\"" -> LET r == ScanString(s, i + 1, <<>>) IN
                     IF r.ok THEN ParseOk(PyStr(r.v), r.i) ELSE ParseFail
      [] c = "{" -> LET j == SkipWs(s, i + 1) IN
                    IF At(s, j) = "}" THEN ParseOk(PyDict(<<>>), j + 1)
                    ELSE ParseMembers(s, j, <<>>)
      [] c = "[" -> LET j == SkipWs(s, i + 1) IN
                    IF At(s, j) = "]" THEN ParseOk(PyList(<<>>), j + 1)
                    ELSE ParseElements(s, j, <<>>)
      [] Matches(s, i, <<"n", "u", "l", "l">>) -> ParseOk(PyNone, i + 4)
      [] Matches(s, i, <<"t", "r", "u", "e">>) -> ParseOk(PyBool(TRUE), i + 4)
      [] Matches(s, i, <<"f", "a", "l", "s", "e">>) -> ParseOk(PyBool(FALSE), i + 5)
      [] c = "-" \/ IsDigit(c) -> ParseNumber(s, i)
      [] OTHER -> ParseFail

\* json.loads(s): [ok |-> TRUE, v |-> value] or, on JSONDecodeError,
\* [ok |-> FALSE, ...]
Loads(s) ==
    LET r == ParseValue(s, SkipWs(s, 1)) IN
    IF r.ok /\ SkipWs(s, r.i) = Len(s) + 1 THEN r ELSE ParseFail

\* ------------------------------------------------------------------------
\* Texts of the program (string literals of the source), as character
\* sequences.  File bodies and other long texts of the built-in mock
\* responses are cut to their first six characters.
\* ------------------------------------------------------------------------
Txt ==
    [ template_files |-> <<"t", "e", "m", "p", "l", "a", "t", "e", "_", "f", "i", "l", "e", "s">>,
      analysis |-> <<"a", "n", "a", "l", "y", "s", "i", "s">>,
      customizations |-> <<"c", "u", "s", "t", "o", "m", "i", "z", "a", "t", "i", "o", "n", "s">>,
      validation_results |-> <<"v", "a", "l", "i", "d", "a", "t", "i", "o", "n", "_", "r", "e", "s", "u", "l", "t", "s">>,
      budget_constraint |-> <<"b", "u", "d", "g", "e", "t", "_", "c", "o", "n", "s", "t", "r", "a", "i", "n", "t">>,
      performance_targets |-> <<"p", "e", "r", "f", "o", "r", "m", "a", "n", "c", "e", "_", "t", "a", "r", "g", "e", "t", "s">>,
      utilization_data |-> <<"u", "t", "i", "l", "i", "z", "a", "t", "i", "o", "n", "_", "d", "a", "t", "a">>,
      message |-> <<"m", "e", "s", "s", "a", "g", "e">>,
      system_prompt_length |-> <<"s", "y", "s", "t", "e", "m", "_", "p", "r", "o", "m", "p", "t", "_", "l", "e", "n", "g", "t", "h">>,
      user_content_preview |-> <<"u", "s", "e", "r", "_", "c", "o", "n", "t", "e", "n", "t", "_", "p", "r", "e", "v", "i", "e", "w">>,
      mock_message_prefix |-> <<"T", "h", "i", "s", " ", "i", "s", " ", "a", " ", "m", "o", "c", "k", " ", "r", "e", "s", "p", "o", "n", "s", "e", " ", "f", "r", "o", "m", " ">>,
      parser |-> <<"p", "a", "r", "s", "e", "r">>,
      generator |-> <<"g", "e", "n", "e", "r", "a", "t", "o", "r">>,
      validator |-> <<"v", "a", "l", "i", "d", "a", "t", "o", "r">>,
      optimizer |-> <<"o", "p", "t", "i", "m", "i", "z", "e", "r">>,
      ellipsis |-> <<".", ".", ".">>,
      existing_resources_prefix |-> <<"\n", "\n", "E", "x", "i", "s", "t", "i", "n", "g", " ", "r", "e", "s", "o", "u", "r", "c", "e", "s", ":", " ">>,
      n0_1 |-> <<"0", ".", "1">>,
      n0_2 |-> <<"0", ".", "2">>,
      x_tf |-> <<"x", ".", "t", "f">>,
      doc |-> <<"#", " ", "D", "o", "c">>,
      a |-> <<"a">>,
      b |-> <<"b">>,
      errors |-> <<"e", "r", "r", "o", "r", "s">>,
      warnings |-> <<"w", "a", "r", "n", "i", "n", "g", "s">>,
      suggestions |-> <<"s", "u", "g", "g", "e", "s", "t", "i", "o", "n", "s">>,
      ok |-> <<"o", "k">>,
      vpc_1 |-> <<"v", "p", "c", "-", "1">>,
      provider |-> <<"p", "r", "o", "v", "i", "d", "e", "r">>,
      aws |-> <<"a", "w", "s">>,
      resources |-> <<"r", "e", "s", "o", "u", "r", "c", "e", "s">>,
      type |-> <<"t", "y", "p", "e">>,
      vpc |-> <<"v", "p", "c">>,
      name |-> <<"n", "a", "m", "e">>,
      main_v |-> <<"m", "a", "i", "n", "-", "v">>,
      cidr |-> <<"c", "i", "d", "r">>,
      n10_0_0 |-> <<"1", "0", ".", "0", ".", "0">>,
      subnets |-> <<"s", "u", "b", "n", "e", "t", "s">>,
      public |-> <<"p", "u", "b", "l", "i", "c">>,
      n10_0_1 |-> <<"1", "0", ".", "0", ".", "1">>,
      az |-> <<"a", "z">>,
      us_wes |-> <<"u", "s", "-", "w", "e", "s">>,
      privat |-> <<"p", "r", "i", "v", "a", "t">>,
      n10_0_2 |-> <<"1", "0", ".", "0", ".", "2">>,
      ec2 |-> <<"e", "c", "2">>,
      web_se |-> <<"w", "e", "b", "-", "s", "e">>,
      instance_type |-> <<"i", "n", "s", "t", "a", "n", "c", "e", "_", "t", "y", "p", "e">>,
      t3_med |-> <<"t", "3", ".", "m", "e", "d">>,
      count |-> <<"c", "o", "u", "n", "t">>,
      relationships |-> <<"r", "e", "l", "a", "t", "i", "o", "n", "s", "h", "i", "p", "s">>,
      source |-> <<"s", "o", "u", "r", "c", "e">>,
      target |-> <<"t", "a", "r", "g", "e", "t">>,
      deploy |-> <<"d", "e", "p", "l", "o", "y">>,
      security |-> <<"s", "e", "c", "u", "r", "i", "t", "y">>,
      encryption |-> <<"e", "n", "c", "r", "y", "p", "t", "i", "o", "n">>,
      requir |-> <<"r", "e", "q", "u", "i", "r">>,
      access_controls |-> <<"a", "c", "c", "e", "s", "s", "_", "c", "o", "n", "t", "r", "o", "l", "s">>,
      restri |-> <<"r", "e", "s", "t", "r", "i">>,
      use_se |-> <<"u", "s", "e", "_", "s", "e">>,
      constraints |-> <<"c", "o", "n", "s", "t", "r", "a", "i", "n", "t", "s">>,
      budget |-> <<"b", "u", "d", "g", "e", "t">>,
      low_co |-> <<"l", "o", "w", "_", "c", "o">>,
      performance |-> <<"p", "e", "r", "f", "o", "r", "m", "a", "n", "c", "e">>,
      modera |-> <<"m", "o", "d", "e", "r", "a">>,
      metadata |-> <<"m", "e", "t", "a", "d", "a", "t", "a">>,
      purpose |-> <<"p", "u", "r", "p", "o", "s", "e">>,
      Web_ap |-> <<"W", "e", "b", " ", "a", "p">>,
      requestor |-> <<"r", "e", "q", "u", "e", "s", "t", "o", "r">>,
      Develo |-> <<"D", "e", "v", "e", "l", "o">>,
      environment |-> <<"e", "n", "v", "i", "r", "o", "n", "m", "e", "n", "t">>,
      dev |-> <<"d", "e", "v">>,
      region |-> <<"r", "e", "g", "i", "o", "n">>,
      project |-> <<"p", "r", "o", "j", "e", "c", "t">>,
      web_ap |-> <<"w", "e", "b", "-", "a", "p">>,
      timeline |-> <<"t", "i", "m", "e", "l", "i", "n", "e">>,
      perman |-> <<"p", "e", "r", "m", "a", "n">>,
      integration |-> <<"i", "n", "t", "e", "g", "r", "a", "t", "i", "o", "n">>,
      objectives |-> <<"o", "b", "j", "e", "c", "t", "i", "v", "e", "s">>,
      implicit_needs |-> <<"i", "m", "p", "l", "i", "c", "i", "t", "_", "n", "e", "e", "d", "s">>,
      main_tf |-> <<"m", "a", "i", "n", ".", "t", "f">>,
      provid |-> <<"p", "r", "o", "v", "i", "d">>,
      variables_tf |-> <<"v", "a", "r", "i", "a", "b", "l", "e", "s", ".", "t", "f">>,
      variab |-> <<"v", "a", "r", "i", "a", "b">>,
      outputs_tf |-> <<"o", "u", "t", "p", "u", "t", "s", ".", "t", "f">>,
      output |-> <<"o", "u", "t", "p", "u", "t">>,
      variables |-> <<"v", "a", "r", "i", "a", "b", "l", "e", "s">>,
      outputs |-> <<"o", "u", "t", "p", "u", "t", "s">>,
      complexity |-> <<"c", "o", "m", "p", "l", "e", "x", "i", "t", "y">>,
      cost |-> <<"c", "o", "s", "t">>,
      AWS |-> <<"#", " ", "A", "W", "S", " ">>,
      file |-> <<"f", "i", "l", "e">>,
      main_t |-> <<"m", "a", "i", "n", ".", "t">>,
      location |-> <<"l", "o", "c", "a", "t", "i", "o", "n">>,
      aws_in |-> <<"a", "w", "s", "_", "i", "n">>,
      severity |-> <<"s", "e", "v", "e", "r", "i", "t", "y">>,
      critic |-> <<"c", "r", "i", "t", "i", "c">>,
      Securi |-> <<"S", "e", "c", "u", "r", "i">>,
      recommendation |-> <<"r", "e", "c", "o", "m", "m", "e", "n", "d", "a", "t", "i", "o", "n">>,
      Add_se |-> <<"A", "d", "d", " ", "s", "e">>,
      aws_vp |-> <<"a", "w", "s", "_", "v", "p">>,
      medium |-> <<"m", "e", "d", "i", "u", "m">>,
      Missin |-> <<"M", "i", "s", "s", "i", "n">>,
      Add_en |-> <<"A", "d", "d", " ", "e", "n">>,
      AMI_ID |-> <<"A", "M", "I", " ", "I", "D">>,
      Remove |-> <<"R", "e", "m", "o", "v", "e">>,
      genera |-> <<"g", "e", "n", "e", "r", "a">>,
      low |-> <<"l", "o", "w">>,
      Add_co |-> <<"A", "d", "d", " ", "c", "o">>,
      Add_de |-> <<"A", "d", "d", " ", "d", "e">>,
      Adde |-> <<"#", " ", "A", "d", "d", "e">>,
      score |-> <<"s", "c", "o", "r", "e">>,
      structure |-> <<"s", "t", "r", "u", "c", "t", "u", "r", "e">>,
      naming |-> <<"n", "a", "m", "i", "n", "g">>,
      recommendations |-> <<"r", "e", "c", "o", "m", "m", "e", "n", "d", "a", "t", "i", "o", "n", "s">>,
      findings |-> <<"f", "i", "n", "d", "i", "n", "g", "s">>,
      compliance |-> <<"c", "o", "m", "p", "l", "i", "a", "n", "c", "e">>,
      risk_score |-> <<"r", "i", "s", "k", "_", "s", "c", "o", "r", "e">>,
      high |-> <<"h", "i", "g", "h">>,
      current_estimated_cost |-> <<"c", "u", "r", "r", "e", "n", "t", "_", "e", "s", "t", "i", "m", "a", "t", "e", "d", "_", "c", "o", "s", "t">>,
      n342_5 |-> <<"3", "4", "2", ".", "5">>,
      optimized_estimated_cost |-> <<"o", "p", "t", "i", "m", "i", "z", "e", "d", "_", "e", "s", "t", "i", "m", "a", "t", "e", "d", "_", "c", "o", "s", "t">>,
      n214_75 |-> <<"2", "1", "4", ".", "7", "5">>,
      savings_percentage |-> <<"s", "a", "v", "i", "n", "g", "s", "_", "p", "e", "r", "c", "e", "n", "t", "a", "g", "e">>,
      n37_3 |-> <<"3", "7", ".", "3">>,
      current_performance_assessment |-> <<"c", "u", "r", "r", "e", "n", "t", "_", "p", "e", "r", "f", "o", "r", "m", "a", "n", "c", "e", "_", "a", "s", "s", "e", "s", "s", "m", "e", "n", "t">>,
      optimized_performance_assessment |-> <<"o", "p", "t", "i", "m", "i", "z", "e", "d", "_", "p", "e", "r", "f", "o", "r", "m", "a", "n", "c", "e", "_", "a", "s", "s", "e", "s", "s", "m", "e", "n", "t">>,
      improvement_summary |-> <<"i", "m", "p", "r", "o", "v", "e", "m", "e", "n", "t", "_", "s", "u", "m", "m", "a", "r", "y">>,
      Expect |-> <<"E", "x", "p", "e", "c", "t">>,
      architecture_overview |-> <<"a", "r", "c", "h", "i", "t", "e", "c", "t", "u", "r", "e", "_", "o", "v", "e", "r", "v", "i", "e", "w">>,
      Scalab |-> <<"S", "c", "a", "l", "a", "b">>,
      components |-> <<"c", "o", "m", "p", "o", "n", "e", "n", "t", "s">>,
      communication |-> <<"c", "o", "m", "m", "u", "n", "i", "c", "a", "t", "i", "o", "n">>,
      Web_tr |-> <<"W", "e", "b", " ", "t", "r">>,
      scalability |-> <<"s", "c", "a", "l", "a", "b", "i", "l", "i", "t", "y">>,
      Auto_S |-> <<"A", "u", "t", "o", " ", "S">>,
      Estima |-> <<"E", "s", "t", "i", "m", "a">>,
      diagram |-> <<"d", "i", "a", "g", "r", "a", "m">>,
      box |-> <<"+", "-", "-", "-", "-", "-">>,
      terraform_example |-> <<"t", "e", "r", "r", "a", "f", "o", "r", "m", "_", "e", "x", "a", "m", "p", "l", "e">>,
      Auto |-> <<"#", " ", "A", "u", "t", "o">>,
      current_resources |-> <<"c", "u", "r", "r", "e", "n", "t", "_", "r", "e", "s", "o", "u", "r", "c", "e", "s">>,
      right_sized_resources |-> <<"r", "i", "g", "h", "t", "_", "s", "i", "z", "e", "d", "_", "r", "e", "s", "o", "u", "r", "c", "e", "s">>,
      efficiency_improvement |-> <<"e", "f", "f", "i", "c", "i", "e", "n", "c", "y", "_", "i", "m", "p", "r", "o", "v", "e", "m", "e", "n", "t">>,
      n45 |-> <<"4", "5", "%">> ]

\* ------------------------------------------------------------------------
\* Bounds of the model
\* ------------------------------------------------------------------------
\* length of the longest payload text an operation is called with
MaxPayloadLen == 51

\* ------------------------------------------------------------------------
\* Program constants
\* ------------------------------------------------------------------------
\* base.py line 140: user_content[:50], len(user_content) > 50
PreviewLen == 50
\* config.py line 24: max_tokens: int = 4000
ConfigMaxTokens == 4000
\* config.py line 23: default_temperature: float = 0.1
ConfigDefaultTemperature == PyFloat(Txt.n0_1)

\* Optional[str]: None or a string
NoneStr == [isNone |-> TRUE, s |-> ""]
SomeStr(s) == [isNone |-> FALSE, s |-> s]

\* Python truth value of a value (bool(v))
Truthy(v) ==
    CASE v.t = "None"  -> FALSE
      [] v.t = "bool"  -> v.b
      [] v.t = "int"   -> v.n # 0
      [] v.t = "float" -> v.repr \notin {<<"0", ".", "0">>, <<"-", "0", ".", "0">>}
      [] v.t = "str"   -> v.s # <<>>
      [] v.t = "list"  -> v.items # <<>>
      [] v.t = "dict"  -> v.items # <<>>

\* Python truth value of an Optional[str]
TruthyStr(k) == ~k.isNone /\ k.s # ""

\* x or y
PyOr(x, y) == IF Truthy(x) THEN x ELSE y

\* mutant of Mock_parse_requirements: the VPC has the public subnet only
Mock_parse_requirements_OneSubnet ==
    PyDict(<<
        <<Txt.provider, PyStr(Txt.aws)>>,
        <<Txt.resources, PyList(<<PyDict(<<
                <<Txt.type, PyStr(Txt.vpc)>>,
                <<Txt.name, PyStr(Txt.main_v)>>,
                <<Txt.cidr, PyStr(Txt.n10_0_0)>>,
                <<Txt.subnets, PyList(<<PyDict(<<
                        <<Txt.name, PyStr(Txt.public)>>,
                        <<Txt.cidr, PyStr(Txt.n10_0_1)>>,
                        <<Txt.az, PyStr(Txt.us_wes)>>>>)>>)>>>>), PyDict(<<
                <<Txt.type, PyStr(Txt.ec2)>>,
                <<Txt.name, PyStr(Txt.web_se)>>,
                <<Txt.instance_type, PyStr(Txt.t3_med)>>,
                <<Txt.count, PyInt(2)>>>>)>>)>>,
        <<Txt.relationships, PyList(<<PyDict(<<
                <<Txt.source, PyStr(Txt.web_se)>>,
                <<Txt.target, PyStr(Txt.public)>>,
                <<Txt.type, PyStr(Txt.deploy)>>>>)>>)>>,
        <<Txt.security, PyDict(<<
            <<Txt.encryption, PyStr(Txt.requir)>>,
            <<Txt.access_controls, PyList(<<PyStr(Txt.restri), PyStr(Txt.use_se)>>)>>>>)>>,
        <<Txt.constraints, PyDict(<<
            <<Txt.budget, PyStr(Txt.low_co)>>,
            <<Txt.performance, PyStr(Txt.modera)>>>>)>>,
        <<Txt.metadata, PyDict(<<
            <<Txt.purpose, PyStr(Txt.Web_ap)>>,
            <<Txt.requestor, PyStr(Txt.Develo)>>>>)>>>>)

\* ------------------------------------------------------------------------
\* The built-in mock responses each component registers at construction.
\* Nested containers below the top level are cut to empty containers of
\* the same type, except in the parser's requirement sample and in the
\* validator's validation sample, which are kept whole.
\* ------------------------------------------------------------------------
\* parsers/parser.py lines 106-140: the value registered under "parse_requirements"
Mock_parse_requirements ==
    PyDict(<<
        <<Txt.provider, PyStr(Txt.aws)>>,
        <<Txt.resources, PyList(<<PyDict(<<
                <<Txt.type, PyStr(Txt.vpc)>>,
                <<Txt.name, PyStr(Txt.main_v)>>,
                <<Txt.cidr, PyStr(Txt.n10_0_0)>>,
                <<Txt.subnets, PyList(<<PyDict(<<
                        <<Txt.name, PyStr(Txt.public)>>,
                        <<Txt.cidr, PyStr(Txt.n10_0_1)>>,
                        <<Txt.az, PyStr(Txt.us_wes)>>>>), PyDict(<<
                        <<Txt.name, PyStr(Txt.privat)>>,
                        <<Txt.cidr, PyStr(Txt.n10_0_2)>>,
                        <<Txt.az, PyStr(Txt.us_wes)>>>>)>>)>>>>), PyDict(<<
                <<Txt.type, PyStr(Txt.ec2)>>,
                <<Txt.name, PyStr(Txt.web_se)>>,
                <<Txt.instance_type, PyStr(Txt.t3_med)>>,
                <<Txt.count, PyInt(2)>>>>)>>)>>,
        <<Txt.relationships, PyList(<<PyDict(<<
                <<Txt.source, PyStr(Txt.web_se)>>,
                <<Txt.target, PyStr(Txt.public)>>,
                <<Txt.type, PyStr(Txt.deploy)>>>>)>>)>>,
        <<Txt.security, PyDict(<<
            <<Txt.encryption, PyStr(Txt.requir)>>,
            <<Txt.access_controls, PyList(<<PyStr(Txt.restri), PyStr(Txt.use_se)>>)>>>>)>>,
        <<Txt.constraints, PyDict(<<
            <<Txt.budget, PyStr(Txt.low_co)>>,
            <<Txt.performance, PyStr(Txt.modera)>>>>)>>,
        <<Txt.metadata, PyDict(<<
            <<Txt.purpose, PyStr(Txt.Web_ap)>>,
            <<Txt.requestor, PyStr(Txt.Develo)>>>>)>>>>)

\* parsers/parser.py lines 143-151: the value registered under "extract_context"
Mock_extract_context ==
    PyDict(<<
        <<Txt.environment, PyStr(Txt.dev)>>,
        <<Txt.region, PyStr(Txt.us_wes)>>,
        <<Txt.project, PyStr(Txt.web_ap)>>,
        <<Txt.timeline, PyStr(Txt.perman)>>,
        <<Txt.integration, PyList(<<>>)>>,
        <<Txt.objectives, PyList(<<>>)>>,
        <<Txt.implicit_needs, PyList(<<>>)>>>>)

\* generators/generator.py lines 174-289: the value registered under "generate_template"
Mock_generate_template ==
    PyDict(<<
        <<Txt.main_tf, PyStr(Txt.provid)>>,
        <<Txt.variables_tf, PyStr(Txt.variab)>>,
        <<Txt.outputs_tf, PyStr(Txt.output)>>>>)

\* generators/generator.py lines 292-321: the value registered under "analyze_template"
Mock_analyze_template ==
    PyDict(<<
        <<Txt.resources, PyList(<<>>)>>,
        <<Txt.variables, PyList(<<>>)>>,
        <<Txt.outputs, PyList(<<>>)>>,
        <<Txt.complexity, PyDict(<<>>)>>,
        <<Txt.cost, PyDict(<<>>)>>,
        <<Txt.security, PyDict(<<>>)>>>>)

\* generators/generator.py lines 324-369: the value registered under "generate_documentation"
Mock_generate_documentation ==
    PyStr(Txt.AWS)

\* generators/generator.py lines 372-546: the value registered under "customize_template"
Mock_customize_template ==
    PyDict(<<
        <<Txt.main_tf, PyStr(Txt.provid)>>,
        <<Txt.variables_tf, PyStr(Txt.variab)>>,
        <<Txt.outputs_tf, PyStr(Txt.output)>>>>)

\* validators/validator.py lines 178-220: the value registered under "validate_terraform"
Mock_validate_terraform ==
    PyDict(<<
        <<Txt.errors, PyList(<<PyDict(<<
                <<Txt.file, PyStr(Txt.main_t)>>,
                <<Txt.location, PyStr(Txt.aws_in)>>,
                <<Txt.severity, PyStr(Txt.critic)>>,
                <<Txt.message, PyStr(Txt.Securi)>>,
                <<Txt.recommendation, PyStr(Txt.Add_se)>>>>)>>)>>,
        <<Txt.warnings, PyList(<<PyDict(<<
                <<Txt.file, PyStr(Txt.main_t)>>,
                <<Txt.location, PyStr(Txt.aws_vp)>>,
                <<Txt.severity, PyStr(Txt.medium)>>,
                <<Txt.message, PyStr(Txt.Missin)>>,
                <<Txt.recommendation, PyStr(Txt.Add_en)>>>>), PyDict(<<
                <<Txt.file, PyStr(Txt.variab)>>,
                <<Txt.location, PyStr(Txt.variab)>>,
                <<Txt.severity, PyStr(Txt.medium)>>,
                <<Txt.message, PyStr(Txt.AMI_ID)>>,
                <<Txt.recommendation, PyStr(Txt.Remove)>>>>)>>)>>,
        <<Txt.suggestions, PyList(<<PyDict(<<
                <<Txt.file, PyStr(Txt.main_t)>>,
                <<Txt.location, PyStr(Txt.genera)>>,
                <<Txt.severity, PyStr(Txt.low)>>,
                <<Txt.message, PyStr(Txt.Missin)>>,
                <<Txt.recommendation, PyStr(Txt.Add_co)>>>>), PyDict(<<
                <<Txt.file, PyStr(Txt.output)>>,
                <<Txt.location, PyStr(Txt.genera)>>,
                <<Txt.severity, PyStr(Txt.low)>>,
                <<Txt.message, PyStr(Txt.Missin)>>,
                <<Txt.recommendation, PyStr(Txt.Add_de)>>>>)>>)>>>>)

\* validators/validator.py lines 223-405: the value registered under "suggest_fixes"
Mock_suggest_fixes ==
    PyDict(<<
        <<Txt.main_tf, PyStr(Txt.provid)>>,
        <<Txt.variables_tf, PyStr(Txt.variab)>>,
        <<Txt.outputs_tf, PyStr(Txt.Adde)>>>>)

\* validators/validator.py lines 408-438: the value registered under "check_best_practices"
Mock_check_best_practices ==
    PyDict(<<
        <<Txt.score, PyInt(68)>>,
        <<Txt.structure, PyDict(<<>>)>>,
        <<Txt.naming, PyDict(<<>>)>>,
        <<Txt.variables, PyDict(<<>>)>>,
        <<Txt.security, PyDict(<<>>)>>,
        <<Txt.recommendations, PyList(<<>>)>>>>)

\* validators/validator.py lines 441-480: the value registered under "check_security"
Mock_check_security ==
    PyDict(<<
        <<Txt.findings, PyList(<<>>)>>,
        <<Txt.compliance, PyDict(<<>>)>>,
        <<Txt.risk_score, PyStr(Txt.high)>>,
        <<Txt.recommendations, PyList(<<>>)>>>>)

\* optimizers/optimizer.py lines 201-285: the value registered under "optimize_cost"
Mock_optimize_cost ==
    PyDict(<<
        <<Txt.current_estimated_cost, PyFloat(Txt.n342_5)>>,
        <<Txt.optimized_estimated_cost, PyFloat(Txt.n214_75)>>,
        <<Txt.savings_percentage, PyFloat(Txt.n37_3)>>,
        <<Txt.recommendations, PyList(<<>>)>>,
        <<Txt.template_files, PyDict(<<>>)>>>>)

\* optimizers/optimizer.py lines 288-368: the value registered under "optimize_performance"
Mock_optimize_performance ==
    PyDict(<<
        <<Txt.current_performance_assessment, PyDict(<<>>)>>,
        <<Txt.optimized_performance_assessment, PyDict(<<>>)>>,
        <<Txt.improvement_summary, PyStr(Txt.Expect)>>,
        <<Txt.recommendations, PyList(<<>>)>>,
        <<Txt.template_files, PyDict(<<>>)>>>>)

\* optimizers/optimizer.py lines 371-470: the value registered under "suggest_architecture"
Mock_suggest_architecture ==
    PyDict(<<
        <<Txt.architecture_overview, PyStr(Txt.Scalab)>>,
        <<Txt.components, PyList(<<>>)>>,
        <<Txt.communication, PyStr(Txt.Web_tr)>>,
        <<Txt.scalability, PyStr(Txt.Auto_S)>>,
        <<Txt.security, PyStr(Txt.Securi)>>,
        <<Txt.cost, PyStr(Txt.Estima)>>,
        <<Txt.diagram, PyStr(Txt.box)>>,
        <<Txt.terraform_example, PyStr(Txt.Auto)>>>>)

\* optimizers/optimizer.py lines 473-540: the value registered under "right_size_resources"
Mock_right_size_resources ==
    PyDict(<<
        <<Txt.current_resources, PyDict(<<>>)>>,
        <<Txt.right_sized_resources, PyDict(<<>>)>>,
        <<Txt.efficiency_improvement, PyStr(Txt.n45)>>,
        <<Txt.recommendations, PyList(<<>>)>>,
        <<Txt.template_files, PyDict(<<>>)>>>>)

\* the four component classes, by the component_name each passes to the base
ComponentNames == {"parser", "generator", "validator", "optimizer"}

ComponentNameText(name) ==
    CASE name = "parser"    -> Txt.parser
      [] name = "generator" -> Txt.generator
      [] name = "validator" -> Txt.validator
      [] name = "optimizer" -> Txt.optimizer

\* mutant of RegistrySet: the registry is replaced by one that holds the new
\* entry alone
RegistrySet_Replaces(reg, key, response) == [k \in {key} |-> response]

\* mutant of RegistrySet: a key that is already registered keeps its value
\* (dict.setdefault instead of assignment)
RegistrySet_KeepFirst(reg, key, response) ==
    [k \in DOMAIN reg \cup {key} |->
        IF k = key /\ key \notin DOMAIN reg THEN response ELSE reg[k]]

\* self.mock_responses[key] = response on a registry (a function from the
\* registered keys to their values)
RegistrySet(reg, key, response) ==
    [k \in DOMAIN reg \cup {key} |-> IF k = key THEN response ELSE reg[k]]

\* the empty registry of base.py line 39
EmptyRegistry == [k \in {} |-> PyNone]

\* _register_default_mocks of each component class, applied to the registry
\* that LLMComponentBase.__init__ created
RegisterDefaultMocks(name, reg) ==
    CASE name = "parser" ->
           RegistrySet(RegistrySet(reg,
               "parse_requirements", Mock_parse_requirements),
               "extract_context", Mock_extract_context)
      [] name = "generator" ->
           RegistrySet(RegistrySet(RegistrySet(RegistrySet(reg,
               "generate_template", Mock_generate_template),
               "analyze_template", Mock_analyze_template),
               "generate_documentation", Mock_generate_documentation),
               "customize_template", Mock_customize_template)
      [] name = "validator" ->
           RegistrySet(RegistrySet(RegistrySet(RegistrySet(reg,
               "validate_terraform", Mock_validate_terraform),
               "suggest_fixes", Mock_suggest_fixes),
               "check_best_practices", Mock_check_best_practices),
               "check_security", Mock_check_security)
      [] name = "optimizer" ->
           RegistrySet(RegistrySet(RegistrySet(RegistrySet(reg,
               "optimize_cost", Mock_optimize_cost),
               "optimize_performance", Mock_optimize_performance),
               "suggest_architecture", Mock_suggest_architecture),
               "right_size_resources", Mock_right_size_resources)

\* ------------------------------------------------------------------------
\* LLMComponentBase.__init__ (lines 42-58): the state of self.client.
\*   "unset"  the attribute was never assigned (line 44 only logs)
\*   "None"   self.client = None
\*   "client" an openai.AzureOpenAI client
\* ctorFails: whether openai.AzureOpenAI(...) raises.
\* ------------------------------------------------------------------------
InitClient(cfg, ctorFails) ==
    IF cfg.use_azure_openai
    THEN IF cfg.azure_openai_endpoint = "" \/ cfg.azure_openai_key = ""
         THEN "unset"
         ELSE IF ctorFails THEN "None" ELSE "client"
    ELSE "None"

\* lines 43-44: the "credentials not provided" warning is logged
InitWarns(cfg) ==
    /\ cfg.use_azure_openai
    /\ (cfg.azure_openai_endpoint = "" \/ cfg.azure_openai_key = "")

\* line 38: deployment_id or getattr(llm_config, "<name>_deployment_id")
DeploymentId(cfg, name) ==
    CASE name = "parser"    -> cfg.parser_deployment_id
      [] name = "generator" -> cfg.generator_deployment_id
      [] name = "validator" -> cfg.validator_deployment_id
      [] name = "optimizer" -> cfg.optimizer_deployment_id

\* ------------------------------------------------------------------------
\* The domain operations.  Each <operation>_request gives the arguments the
\* operation passes to call_llm; a system prompt is kept as its author and
\* its length (len(system_prompt) is all the program computes from it).
\* Arguments call_llm defaults (lines 63-66) are written out.
\* ------------------------------------------------------------------------
Prompt(author, length) == [author |-> author, len |-> length]

CallArgs(system_prompt, user_content, temperature, json_response, max_tokens, key) ==
    [system_prompt |-> system_prompt, user_content |-> user_content,
     temperature |-> temperature, json_response |-> json_response,
     max_tokens |-> max_tokens, mock_response_key |-> key]

Pair(k1, v1, k2, v2) == PyDict(<< <<k1, v1>>, <<k2, v2>> >>)
Single(k1, v1) == PyDict(<< <<k1, v1>> >>)

\* mutant of parse_infrastructure_requirements_request: the key is the
\* operation's name
parse_infrastructure_requirements_request_OwnName(text) ==
    CallArgs(Prompt("parse_infrastructure_requirements", 1047), text,
             PyNone, TRUE, PyNone, SomeStr("parse_infrastructure_requirements"))

\* parser.py lines 23-58
parse_infrastructure_requirements_request(text) ==
    CallArgs(Prompt("parse_infrastructure_requirements", 1047), text,
             PyNone, TRUE, PyNone, SomeStr("parse_requirements"))

\* parser.py lines 60-101
extract_context_request(text, existing_resources) ==
    CallArgs(Prompt("extract_context", 996),
             IF Truthy(existing_resources)
             THEN PyStr(text.s \o Txt.existing_resources_prefix
                        \o Dumps(existing_resources))
             ELSE text,
             PyNone, TRUE, PyNone, SomeStr("extract_context"))

\* generator.py lines 23-55
generate_terraform_template_request(requirements) ==
    CallArgs(Prompt("generate_terraform_template", 659), requirements,
             PyFloat(Txt.n0_2), TRUE, PyInt(4000), SomeStr("generate_template"))

\* generator.py lines 57-92
analyze_template_request(template_files) ==
    CallArgs(Prompt("analyze_template", 873), template_files,
             PyNone, TRUE, PyNone, SomeStr("analyze_template"))

\* generator.py lines 94-131
generate_documentation_request(template_files, analysis) ==
    CallArgs(Prompt("generate_documentation", 469),
             Pair(Txt.template_files, template_files, Txt.analysis, analysis),
             PyFloat(Txt.n0_2), FALSE, PyNone, SomeStr("generate_documentation"))

\* generator.py lines 133-169
customize_template_request(template_files, customizations) ==
    CallArgs(Prompt("customize_template", 534),
             Pair(Txt.template_files, template_files,
                  Txt.customizations, customizations),
             PyFloat(Txt.n0_2), TRUE, PyInt(4000), SomeStr("customize_template"))

\* validator.py lines 23-62
validate_terraform_request(template_files) ==
    CallArgs(Prompt("validate_terraform", 949), template_files,
             PyFloat(Txt.n0_1), TRUE, PyNone, SomeStr("validate_terraform"))

\* validator.py lines 64-101
suggest_fixes_request(template_files, validation_results) ==
    CallArgs(Prompt("suggest_fixes", 522),
             Pair(Txt.template_files, template_files,
                  Txt.validation_results, validation_results),
             PyFloat(Txt.n0_2), TRUE, PyInt(4000), SomeStr("suggest_fixes"))

\* validator.py lines 103-138
check_best_practices_request(template_files) ==
    CallArgs(Prompt("check_best_practices", 808), template_files,
             PyFloat(Txt.n0_1), TRUE, PyNone, SomeStr("check_best_practices"))

\* validator.py lines 140-173
check_security_request(template_files) ==
    CallArgs(Prompt("check_security", 674), template_files,
             PyFloat(Txt.n0_1), TRUE, PyNone, SomeStr("check_security"))

\* optimizer.py lines 53-56, 97-100, 184-187:
\*   json.dumps({"template_files": ..., name: opt}) if opt
\*   else json.dumps({"template_files": ...})
OptionalPayload(template_files, name, opt) ==
    IF Truthy(opt)
    THEN PyStr(Dumps(Pair(Txt.template_files, template_files, name, opt)))
    ELSE PyStr(Dumps(Single(Txt.template_files, template_files)))

\* optimizer.py lines 23-65
optimize_cost_request(template_files, budget_constraint) ==
    CallArgs(Prompt("optimize_cost", 891),
             OptionalPayload(template_files, Txt.budget_constraint, budget_constraint),
             PyFloat(Txt.n0_2), TRUE, PyInt(4000), SomeStr("optimize_cost"))

\* optimizer.py lines 67-109
optimize_performance_request(template_files, performance_targets) ==
    CallArgs(Prompt("optimize_performance", 869),
             OptionalPayload(template_files, Txt.performance_targets, performance_targets),
             PyFloat(Txt.n0_2), TRUE, PyInt(4000), SomeStr("optimize_performance"))

\* mutant of suggest_architecture_request: the key is not one the optimizer
\* registers
suggest_architecture_request_OtherKey(requirements) ==
    CallArgs(Prompt("suggest_architecture", 930), requirements,
             PyFloat(Txt.n0_2), TRUE, PyNone, SomeStr("architecture"))

\* optimizer.py lines 111-150
suggest_architecture_request(requirements) ==
    CallArgs(Prompt("suggest_architecture", 930), requirements,
             PyFloat(Txt.n0_2), TRUE, PyNone, SomeStr("suggest_architecture"))

\* optimizer.py lines 152-196
right_size_resources_request(template_files, utilization_data) ==
    CallArgs(Prompt("right_size_resources", 936),
             OptionalPayload(template_files, Txt.utilization_data, utilization_data),
             PyFloat(Txt.n0_2), TRUE, PyInt(4000), SomeStr("right_size_resources"))

\* ------------------------------------------------------------------------
\* LLMComponentBase.call_llm and _get_mock_response as functions
\* ------------------------------------------------------------------------
\* mutant of Serialize: a dict payload is turned into text by str(), which
\* quotes with ' where json.dumps quotes with "
Serialize_Repr(user_content) ==
    IF user_content.t = "dict"
    THEN LET d == Dumps(user_content) IN
         [k \in 1..Len(d) |-> IF d[k] = "\"" THEN "'" ELSE d[k]]
    ELSE user_content.s

\* lines 82-83: a dict payload is replaced by json.dumps of it
Serialize(user_content) ==
    IF user_content.t = "dict" THEN Dumps(user_content) ELSE user_content.s

\* mutant of Preview: the comparison is >= instead of >
Preview_OffByOne(user_content) ==
    IF Len(user_content) >= PreviewLen
    THEN SubSeq(user_content, 1, PreviewLen) \o Txt.ellipsis
    ELSE user_content

\* line 140: user_content[:50] + "..." if len(user_content) > 50 else user_content
Preview(user_content) ==
    IF Len(user_content) > PreviewLen
    THEN SubSeq(user_content, 1, PreviewLen) \o Txt.ellipsis
    ELSE user_content

\* lines 137-141: the generic mock
GenericMock(name, system_prompt, user_content) ==
    PyDict(<< <<Txt.message, PyStr(Txt.mock_message_prefix \o ComponentNameText(name))>>,
              <<Txt.system_prompt_length, PyInt(system_prompt.len)>>,
              <<Txt.user_content_preview, PyStr(Preview(user_content))>> >>)

\* mutant of HasMock: the key's truth value is not tested
HasMock_NoTruthTest(reg, key) == ~key.isNone /\ key.s \in DOMAIN reg

\* line 131: key and key in self.mock_responses
HasMock(reg, key) == TruthyStr(key) /\ key.s \in DOMAIN reg

\* mutant of GetMockResponse: the registry is not consulted
GetMockResponse_IgnoresRegistry(name, reg, key, system_prompt, user_content, json_response) ==
    IF json_response
    THEN GenericMock(name, system_prompt, user_content)
    ELSE PyStr(Dumps(GenericMock(name, system_prompt, user_content)))

\* _get_mock_response, lines 125-145 (user_content is the serialized text)
GetMockResponse(name, reg, key, system_prompt, user_content, json_response) ==
    IF HasMock(reg, key)
    THEN reg[key.s]
    ELSE IF json_response
         THEN GenericMock(name, system_prompt, user_content)
         ELSE PyStr(Dumps(GenericMock(name, system_prompt, user_content)))

\* how a piece of code ends: it returns a value or raises an exception
Return(v) == [kind |-> "return", value |-> v]
Exception(type, what) == [t |-> "exception", type |-> type, what |-> what]
Raise(type, what) == [kind |-> "raise", value |-> Exception(type, what)]

\* the exception raised at line 116
DecodeFailure == Exception("Exception", "Invalid JSON response from LLM")

\* the classes "except Exception" (line 120) catches, among those the model raises
ExceptionSubclasses ==
    {"Exception", "IndexError", "TypeError", "APIConnectionError",
     "AuthenticationError", "APITimeoutError"}

\* mutant of UseMock: the test reads the configuration alone
UseMock_IgnoresClient(clientState, cfg) == Return(PyBool(~cfg.use_azure_openai))

\* line 86: self.client is None or not llm_config.use_azure_openai
\* (evaluated left to right; reading an attribute never assigned raises)
UseMock(clientState, cfg) ==
    IF clientState = "unset" THEN Raise("AttributeError", "client")
    ELSE Return(PyBool(clientState = "None" \/ ~cfg.use_azure_openai))

\* mutant of OutboundRequest: the response format is set for every call
OutboundRequest_AlwaysJson(cfg, name, args, user_content) ==
    [model |-> DeploymentId(cfg, name),
     system_prompt |-> args.system_prompt,
     user_content |-> user_content,
     response_format |-> "json_object",
     temperature |-> PyOr(args.temperature, ConfigDefaultTemperature),
     max_tokens |-> PyOr(args.max_tokens, PyInt(ConfigMaxTokens))]

\* lines 91-104: the request handed to chat.completions.create
OutboundRequest(cfg, name, args, user_content) ==
    [model |-> DeploymentId(cfg, name),
     system_prompt |-> args.system_prompt,
     user_content |-> user_content,
     response_format |-> IF args.json_response THEN "json_object" ELSE "None",
     temperature |-> PyOr(args.temperature, ConfigDefaultTemperature),
     max_tokens |-> PyOr(args.max_tokens, PyInt(ConfigMaxTokens))]

\* What the backend does with one request: it raises, or returns a response
\* object whose choices each carry a message content (a str or None).
BackendError(type) == [kind |-> "error", type |-> type, choices |-> <<>>]
BackendResponse(choices) == [kind |-> "response", type |-> "", choices |-> choices]
NoReply == [kind |-> "none", type |-> "", choices |-> <<>>]

\* lines 111-116: json.loads(content) inside its own try
ParseReply(content) ==
    IF content.t # "str" THEN Raise("TypeError", "json.loads")
    ELSE LET r == Loads(content.s) IN
         IF r.ok THEN Return(r.v)
         ELSE [kind |-> "raise", value |-> DecodeFailure]

\* mutant of TryBody: the content is parsed as JSON whatever the format
TryBody_AlwaysParses(reply, json_response) ==
    IF reply.kind = "error" THEN Raise(reply.type, "backend")
    ELSE IF reply.choices = <<>> THEN Raise("IndexError", "choices[0]")
    ELSE ParseReply(reply.choices[1])

\* lines 94-118: the body of the outer try, from the backend's reply on
TryBody(reply, json_response) ==
    IF reply.kind = "error" THEN Raise(reply.type, "backend")
    ELSE IF reply.choices = <<>> THEN Raise("IndexError", "choices[0]")
    ELSE LET content == reply.choices[1] IN
         IF json_response THEN ParseReply(content) ELSE Return(content)

\* line 120: does "except Exception" catch what the try body raised
Caught(r) == r.kind = "raise" /\ r.value.type \in ExceptionSubclasses

\* lines 89-123: the outcome of call_llm in the backend branch
BackendOutcome(name, reg, args, user_content, reply) ==
    LET r == TryBody(reply, args.json_response) IN
    IF Caught(r)
    THEN Return(GetMockResponse(name, reg, args.mock_response_key,
                                args.system_prompt, user_content, args.json_response))
    ELSE r

\* ------------------------------------------------------------------------
\* Inputs the environment supplies
\* ------------------------------------------------------------------------
\* the Configuration records (config.py lines 9-25); the deployment ids
\* keep their default
Configs ==
    [use_azure_openai : BOOLEAN,
     azure_openai_endpoint : {"", "https://endpoint"},
     azure_openai_key : {"", "key"},
     parser_deployment_id : {"gpt-4"},
     generator_deployment_id : {"gpt-4"},
     validator_deployment_id : {"gpt-4"},
     optimizer_deployment_id : {"gpt-4"}]

\* texts: empty, exactly PreviewLen characters, and the longest
TextInputs == {PyStr(Rep("a", n)) : n \in {0, PreviewLen, MaxPayloadLen}}
OpTextInputs == {PyStr(<<>>), PyStr(Rep("a", MaxPayloadLen))}

\* template_files mappings: empty, a file the built-in mocks also name, and
\* a file they do not name (with a body that json.dumps must escape)
TemplateFilesInputs ==
    {PyDict(<<>>),
     Single(Txt.main_tf, PyStr(Txt.a)),
     Pair(Txt.x_tf, PyStr(Rep("b", MaxPayloadLen)), Txt.main_tf, PyStr(<<"\"">>))}

\* other mappings an operation takes (requirements, analysis, ...)
MappingInputs == {PyDict(<<>>), Single(Txt.a, PyStr(Txt.b))}

\* Optional[Dict] arguments: absent, empty, non-empty
OptionalMappingInputs == {PyNone} \cup MappingInputs

\* Optional[float] budget: absent, 0.0, 100.5
OptionalFloatInputs ==
    {PyNone, PyFloat(<<"0", ".", "0">>), PyFloat(<<"1", "0", "0", ".", "5">>)}

\* payloads of a direct call_llm: texts, and dicts whose serialized form is
\* exactly PreviewLen and MaxPayloadLen characters long
\* (json.dumps({"a": s}) is len(s) + 9 characters long)
DictPayloads ==
    {Single(Txt.a, PyStr(Rep("b", PreviewLen - 9))),
     Single(Txt.a, PyStr(Rep("b", MaxPayloadLen - 9)))}
DirectPayloads == TextInputs \cup DictPayloads

\* fallback keys of a direct call_llm: None, "", and a key with no built-in
DirectKeys == {NoneStr, SomeStr(""), SomeStr("custom")}

\* temperature and max_tokens of a direct call_llm: both left out, the ends
\* of the temperature range [0, 2] with and without a max_tokens
DirectSamplings ==
    {<<PyNone, PyNone>>,
     <<PyFloat(<<"0", ".", "0">>), PyInt(100)>>,
     <<PyFloat(<<"2", ".", "0">>), PyNone>>}

\* the spec's scenario payload {"errors": [], "warnings": [], "suggestions": []}
CustomPayload ==
    PyDict(<< <<Txt.errors, PyList(<<>>)>>, <<Txt.warnings, PyList(<<>>)>>,
              <<Txt.suggestions, PyList(<<>>)>> >>)

\* register_mock_response at run time: a built-in key of the component is
\* given the scenario payload or a text, a new key is given the scenario
\* payload or None, and the empty key is given the scenario payload
BuiltinKeyOf(name) ==
    CASE name = "parser"    -> "parse_requirements"
      [] name = "generator" -> "generate_documentation"
      [] name = "validator" -> "validate_terraform"
      [] name = "optimizer" -> "optimize_cost"
Registrations(name) ==
    {<<BuiltinKeyOf(name), CustomPayload>>, <<BuiltinKeyOf(name), PyStr(Txt.ok)>>,
     <<"custom", CustomPayload>>, <<"custom", PyNone>>, <<"", CustomPayload>>}

\* what the backend may do with a request
BackendErrors == {"APIConnectionError", "AuthenticationError", "APITimeoutError"}
ReplyObject == Single(Txt.main_tf, PyStr(Txt.a))
ReplyTexts == {Dumps(ReplyObject), Txt.doc, <<>>, Dumps(PyStr(Txt.a))}
Responses ==
    {BackendResponse(<<>>), BackendResponse(<<PyNone>>)}
    \cup {BackendResponse(<<PyStr(s)>>) : s \in ReplyTexts}

\* ------------------------------------------------------------------------
\* State
\* ------------------------------------------------------------------------
Instances == {"c1"}
Tasks == {"t1"}

VARIABLES
    llm_config,       \* the Configuration singleton (config.py line 33)
    component_name,   \* component_name[i]: self.component_name
    client,           \* client[i]: self.client ("unset", "None" or "client")
    mock_responses,   \* mock_responses[i]: self.mock_responses
    warnings,         \* warnings[i]: "credentials not provided" warnings logged
    registered,       \* registered[i]: the latest run-time registration on i,
                      \* << <<key, response>> >>, or << >> when there was none
    call              \* call[t]: the call_llm invocation task t runs or ran last

vars == <<llm_config, component_name, client, mock_responses, warnings,
          registered, call>>

NoArgs == CallArgs(Prompt("", 0), PyNone, PyNone, TRUE, PyNone, NoneStr)
NoOutcome == [kind |-> "none", value |-> PyNone]

\* call[t].pc:   "idle", "awaiting" (suspended in the backend call, line 94)
\*               or "done" (call_llm has ended; the caller has yet to take
\*               the outcome)
\* call[t].path: the line the call ended at: "mock" (87), "backend" (112 or
\*               118), "fallback" (123), "raised" (an exception left call_llm)
\* call[t].inputs: the arguments the operation was called with, in order
\* call[t].at_start: <<v>> when the registry held v for the call's key as
\*               the call began, << >> when it held nothing for it
\* call[t].sent: the requests handed to the backend, in order
IdleCall ==
    [pc |-> "idle", inst |-> "", op |-> "", args |-> NoArgs,
     template_files |-> PyNone, inputs |-> <<>>, user_content |-> <<>>,
     at_start |-> <<>>, sent |-> <<>>,
     reply |-> NoReply, path |-> "", outcome |-> NoOutcome]

Init ==
    /\ llm_config \in Configs
    /\ component_name \in [Instances -> ComponentNames]
    /\ \E ctorFails \in BOOLEAN :
         client = [i \in Instances |-> InitClient(llm_config, ctorFails)]
    /\ mock_responses =
         [i \in Instances |-> RegisterDefaultMocks(component_name[i], EmptyRegistry)]
    /\ warnings = [i \in Instances |-> IF InitWarns(llm_config) THEN 1 ELSE 0]
    /\ registered = [i \in Instances |-> <<>>]
    /\ call = [t \in Tasks |-> IdleCall]

\* mutant of call_llm: a call on a component that has no credentials logs
\* the "credentials not provided" warning again
call_llm_WarnsPerCall(t, i, op, args, template_files, inputs) ==
    LET u == Serialize(args.user_content)
        m == UseMock(client[i], llm_config)
        started == [IdleCall EXCEPT !.inst = i, !.op = op, !.args = args,
                        !.template_files = template_files, !.inputs = inputs,
                        !.user_content = u,
                        !.at_start = IF HasMock(mock_responses[i], args.mock_response_key)
                                     THEN <<mock_responses[i][args.mock_response_key.s]>>
                                     ELSE <<>>]
    IN  /\ call[t].pc = "idle"
        /\ call' = [call EXCEPT ![t] =
             IF m.kind = "raise"
             THEN [started EXCEPT !.pc = "done", !.path = "raised", !.outcome = m]
             ELSE IF m.value.b
             THEN [started EXCEPT !.pc = "done", !.path = "mock",
                      !.outcome = Return(GetMockResponse(component_name[i],
                          mock_responses[i], args.mock_response_key,
                          args.system_prompt, u, args.json_response))]
             ELSE [started EXCEPT !.pc = "awaiting",
                      !.sent = <<OutboundRequest(llm_config, component_name[i], args, u)>>]]
        /\ warnings' = [warnings EXCEPT
                          ![i] = IF InitWarns(llm_config) THEN @ + 1 ELSE @]
        /\ UNCHANGED <<llm_config, component_name, client, mock_responses, registered>>

\* ------------------------------------------------------------------------
\* call_llm, lines 81-104: up to the return at line 87 or the suspension in
\* the backend call
\* ------------------------------------------------------------------------
call_llm(t, i, op, args, template_files, inputs) ==
    LET u == Serialize(args.user_content)
        m == UseMock(client[i], llm_config)
        started == [IdleCall EXCEPT !.inst = i, !.op = op, !.args = args,
                        !.template_files = template_files, !.inputs = inputs,
                        !.user_content = u,
                        !.at_start = IF HasMock(mock_responses[i], args.mock_response_key)
                                     THEN <<mock_responses[i][args.mock_response_key.s]>>
                                     ELSE <<>>]
    IN  /\ call[t].pc = "idle"
        /\ call' = [call EXCEPT ![t] =
             IF m.kind = "raise"
             THEN [started EXCEPT !.pc = "done", !.path = "raised", !.outcome = m]
             ELSE IF m.value.b
             THEN [started EXCEPT !.pc = "done", !.path = "mock",
                      !.outcome = Return(GetMockResponse(component_name[i],
                          mock_responses[i], args.mock_response_key,
                          args.system_prompt, u, args.json_response))]
             ELSE [started EXCEPT !.pc = "awaiting",
                      !.sent = <<OutboundRequest(llm_config, component_name[i], args, u)>>]]
        /\ UNCHANGED <<llm_config, component_name, client, mock_responses, warnings,
                       registered>>

\* mutant of Resume: a value the backend path returns is stored in the
\* registry under the call's fallback key
Resume_CachesReply(t, reply) ==
    LET c == call[t]
        r == BackendOutcome(component_name[c.inst], mock_responses[c.inst],
                            c.args, c.user_content, reply)
        viaTry == ~Caught(TryBody(reply, c.args.json_response))
    IN  /\ c.pc = "awaiting"
        /\ call' = [call EXCEPT ![t] =
             [c EXCEPT !.pc = "done", !.reply = reply, !.outcome = r,
                       !.path = IF ~viaTry THEN "fallback"
                                ELSE IF r.kind = "return" THEN "backend"
                                ELSE "raised"]]
        /\ mock_responses' =
             IF viaTry /\ r.kind = "return" /\ ~c.args.mock_response_key.isNone
             THEN [mock_responses EXCEPT
                     ![c.inst] = RegistrySet(mock_responses[c.inst],
                                             c.args.mock_response_key.s, r.value)]
             ELSE mock_responses
        /\ UNCHANGED <<llm_config, component_name, client, warnings, registered>>

\* mutant of Resume: the serialized payload is kept in an attribute of the
\* component, so the fallback of one call previews the payload of the call
\* that started last on the same component
Resume_SharedPayload(t, reply) ==
    LET c == call[t]
        others == {o \in DOMAIN call \ {t} :
                      call[o].pc # "idle" /\ call[o].inst = c.inst}
        u == IF others = {} THEN c.user_content
             ELSE call[CHOOSE o \in others : TRUE].user_content
        r == BackendOutcome(component_name[c.inst], mock_responses[c.inst],
                            c.args, u, reply)
        viaTry == ~Caught(TryBody(reply, c.args.json_response))
    IN  /\ c.pc = "awaiting"
        /\ call' = [call EXCEPT ![t] =
             [c EXCEPT !.pc = "done", !.reply = reply, !.outcome = r,
                       !.path = IF ~viaTry THEN "fallback"
                                ELSE IF r.kind = "return" THEN "backend"
                                ELSE "raised"]]
        /\ UNCHANGED <<llm_config, component_name, client, mock_responses, warnings,
                       registered>>

\* mutant of Resume: the fallback is the value the registry held for the key
\* when the call began
Resume_LooksUpAtStart(t, reply) ==
    LET c == call[t]
        now == BackendOutcome(component_name[c.inst], mock_responses[c.inst],
                              c.args, c.user_content, reply)
        viaTry == ~Caught(TryBody(reply, c.args.json_response))
        r == IF ~viaTry /\ c.at_start # <<>> THEN Return(c.at_start[1]) ELSE now
    IN  /\ c.pc = "awaiting"
        /\ call' = [call EXCEPT ![t] =
             [c EXCEPT !.pc = "done", !.reply = reply, !.outcome = r,
                       !.path = IF ~viaTry THEN "fallback"
                                ELSE IF r.kind = "return" THEN "backend"
                                ELSE "raised"]]
        /\ UNCHANGED <<llm_config, component_name, client, mock_responses, warnings,
                       registered>>

\* mutant of Resume: the except branch sends the request once more before it
\* falls back
Resume_Retries(t, reply) ==
    LET c == call[t]
        r == BackendOutcome(component_name[c.inst], mock_responses[c.inst],
                            c.args, c.user_content, reply)
        viaTry == ~Caught(TryBody(reply, c.args.json_response))
    IN  /\ c.pc = "awaiting"
        /\ call' = [call EXCEPT ![t] =
             IF ~viaTry /\ Len(c.sent) < 2
             THEN [c EXCEPT !.sent = Append(c.sent, c.sent[1])]
             ELSE [c EXCEPT !.pc = "done", !.reply = reply, !.outcome = r,
                            !.path = IF ~viaTry THEN "fallback"
                                     ELSE IF r.kind = "return" THEN "backend"
                                     ELSE "raised"]]
        /\ UNCHANGED <<llm_config, component_name, client, mock_responses, warnings,
                       registered>>

\* call_llm, lines 106-123: from the backend's reply to the end of the call
Resume(t, reply) ==
    LET c == call[t]
        r == BackendOutcome(component_name[c.inst], mock_responses[c.inst],
                            c.args, c.user_content, reply)
        viaTry == ~Caught(TryBody(reply, c.args.json_response))
    IN  /\ c.pc = "awaiting"
        /\ call' = [call EXCEPT ![t] =
             [c EXCEPT !.pc = "done", !.reply = reply, !.outcome = r,
                       !.path = IF ~viaTry THEN "fallback"
                                ELSE IF r.kind = "return" THEN "backend"
                                ELSE "raised"]]
        /\ UNCHANGED <<llm_config, component_name, client, mock_responses, warnings,
                       registered>>

\* the backend call raises (network error, authentication error, timeout)
BackendRaises(t) == \E e \in BackendErrors : Resume(t, BackendError(e))

\* the backend call returns a response object
BackendResponds(t) == \E r \in Responses : Resume(t, r)

\* the caller takes the outcome of its finished call
Collect(t) ==
    /\ call[t].pc = "done"
    /\ call' = [call EXCEPT ![t] = IdleCall]
    /\ UNCHANGED <<llm_config, component_name, client, mock_responses, warnings,
                   registered>>

\* mutant of register_mock_response: mock_responses is one dict of the class,
\* which every instance's attribute refers to
register_mock_response_ClassLevel(i) ==
    /\ \A t \in Tasks : call[t].pc # "done"
    /\ \E kv \in Registrations(component_name[i]) :
         /\ mock_responses' = [j \in DOMAIN mock_responses |->
                                 RegistrySet(mock_responses[j], kv[1], kv[2])]
         /\ registered' = [registered EXCEPT ![i] = <<kv>>]
    /\ UNCHANGED <<llm_config, component_name, client, warnings, call>>

\* register_mock_response, lines 147-150.  It runs before calls and while a
\* call is suspended in the backend; a finished call is collected first, so
\* that call[t] shows the registry its outcome was resolved against.
register_mock_response(i) ==
    /\ \A t \in Tasks : call[t].pc # "done"
    /\ \E kv \in Registrations(component_name[i]) :
         /\ mock_responses' = [mock_responses EXCEPT
                                 ![i] = RegistrySet(mock_responses[i], kv[1], kv[2])]
         /\ registered' = [registered EXCEPT ![i] = <<kv>>]
    /\ UNCHANGED <<llm_config, component_name, client, warnings, call>>

\* a caller invokes call_llm itself
DirectCall(t, i) ==
    \E payload \in DirectPayloads, key \in DirectKeys, json_response \in BOOLEAN,
       sampling \in DirectSamplings :
        call_llm(t, i, "call_llm",
                 CallArgs(Prompt("caller", 12), payload, sampling[1], json_response,
                          sampling[2], key),
                 PyNone, <<>>)

\* ------------------------------------------------------------------------
\* The fourteen operations
\* ------------------------------------------------------------------------
parse_infrastructure_requirements(t, i) ==
    /\ component_name[i] = "parser"
    /\ \E text \in OpTextInputs :
         call_llm(t, i, "parse_infrastructure_requirements",
                  parse_infrastructure_requirements_request(text), PyNone, <<text>>)

extract_context(t, i) ==
    /\ component_name[i] = "parser"
    /\ \E text \in OpTextInputs, existing_resources \in OptionalMappingInputs :
         call_llm(t, i, "extract_context",
                  extract_context_request(text, existing_resources), PyNone, <<text, existing_resources>>)

generate_terraform_template(t, i) ==
    /\ component_name[i] = "generator"
    /\ \E requirements \in MappingInputs :
         call_llm(t, i, "generate_terraform_template",
                  generate_terraform_template_request(requirements), PyNone, <<requirements>>)

analyze_template(t, i) ==
    /\ component_name[i] = "generator"
    /\ \E template_files \in TemplateFilesInputs :
         call_llm(t, i, "analyze_template",
                  analyze_template_request(template_files), template_files, <<template_files>>)

generate_documentation(t, i) ==
    /\ component_name[i] = "generator"
    /\ \E template_files \in TemplateFilesInputs, analysis \in MappingInputs :
         call_llm(t, i, "generate_documentation",
                  generate_documentation_request(template_files, analysis),
                  template_files, <<template_files, analysis>>)

customize_template(t, i) ==
    /\ component_name[i] = "generator"
    /\ \E template_files \in TemplateFilesInputs, customizations \in MappingInputs :
         call_llm(t, i, "customize_template",
                  customize_template_request(template_files, customizations),
                  template_files, <<template_files, customizations>>)

validate_terraform(t, i) ==
    /\ component_name[i] = "validator"
    /\ \E template_files \in TemplateFilesInputs :
         call_llm(t, i, "validate_terraform",
                  validate_terraform_request(template_files), template_files, <<template_files>>)

suggest_fixes(t, i) ==
    /\ component_name[i] = "validator"
    /\ \E template_files \in TemplateFilesInputs, validation_results \in MappingInputs :
         call_llm(t, i, "suggest_fixes",
                  suggest_fixes_request(template_files, validation_results),
                  template_files, <<template_files, validation_results>>)

check_best_practices(t, i) ==
    /\ component_name[i] = "validator"
    /\ \E template_files \in TemplateFilesInputs :
         call_llm(t, i, "check_best_practices",
                  check_best_practices_request(template_files), template_files, <<template_files>>)

check_security(t, i) ==
    /\ component_name[i] = "validator"
    /\ \E template_files \in TemplateFilesInputs :
         call_llm(t, i, "check_security",
                  check_security_request(template_files), template_files, <<template_files>>)

optimize_cost(t, i) ==
    /\ component_name[i] = "optimizer"
    /\ \E template_files \in TemplateFilesInputs, budget_constraint \in OptionalFloatInputs :
         call_llm(t, i, "optimize_cost",
                  optimize_cost_request(template_files, budget_constraint),
                  template_files, <<template_files, budget_constraint>>)

optimize_performance(t, i) ==
    /\ component_name[i] = "optimizer"
    /\ \E template_files \in TemplateFilesInputs,
          performance_targets \in OptionalMappingInputs :
         call_llm(t, i, "optimize_performance",
                  optimize_performance_request(template_files, performance_targets),
                  template_files, <<template_files, performance_targets>>)

suggest_architecture(t, i) ==
    /\ component_name[i] = "optimizer"
    /\ \E requirements \in MappingInputs :
         call_llm(t, i, "suggest_architecture",
                  suggest_architecture_request(requirements), PyNone, <<requirements>>)

right_size_resources(t, i) ==
    /\ component_name[i] = "optimizer"
    /\ \E template_files \in TemplateFilesInputs,
          utilization_data \in OptionalMappingInputs :
         call_llm(t, i, "right_size_resources",
                  right_size_resources_request(template_files, utilization_data),
                  template_files, <<template_files, utilization_data>>)

Operation(t, i) ==
    \/ parse_infrastructure_requirements(t, i)
    \/ extract_context(t, i)
    \/ generate_terraform_template(t, i)
    \/ analyze_template(t, i)
    \/ generate_documentation(t, i)
    \/ customize_template(t, i)
    \/ validate_terraform(t, i)
    \/ suggest_fixes(t, i)
    \/ check_best_practices(t, i)
    \/ check_security(t, i)
    \/ optimize_cost(t, i)
    \/ optimize_performance(t, i)
    \/ suggest_architecture(t, i)
    \/ right_size_resources(t, i)

Next ==
    \/ \E t \in Tasks, i \in Instances : Operation(t, i)
    \/ \E t \in Tasks, i \in Instances : DirectCall(t, i)
    \/ \E t \in Tasks : BackendRaises(t)
    \/ \E t \in Tasks : BackendResponds(t)
    \/ \E t \in Tasks : Collect(t)
    \/ \E i \in Instances : register_mock_response(i)

Spec == Init /\ [][Next]_vars

\* ------------------------------------------------------------------------
\* Two component instances side by side: a validator, and a second validator
\* or a generator, each constructed by its own __init__ (base.py line 39
\* gives each its own registry).  Run-time registrations are made on c1;
\* one operation of each class and direct calls run on either instance.
\* ------------------------------------------------------------------------
TwoInstances == {"c1", "c2"}

IsolationInit ==
    /\ llm_config \in Configs
    /\ component_name \in
         {f \in [TwoInstances -> {"validator", "generator"}] : f["c1"] = "validator"}
    /\ \E ctorFails \in BOOLEAN :
         client = [i \in TwoInstances |-> InitClient(llm_config, ctorFails)]
    /\ mock_responses =
         [i \in TwoInstances |-> RegisterDefaultMocks(component_name[i], EmptyRegistry)]
    /\ warnings = [i \in TwoInstances |-> IF InitWarns(llm_config) THEN 1 ELSE 0]
    /\ registered = [i \in TwoInstances |-> <<>>]
    /\ call = [t \in Tasks |-> IdleCall]

IsolationNext ==
    \/ \E t \in Tasks, i \in TwoInstances : validate_terraform(t, i)
    \/ \E t \in Tasks, i \in TwoInstances : generate_documentation(t, i)
    \/ \E t \in Tasks, i \in TwoInstances : DirectCall(t, i)
    \/ \E t \in Tasks : BackendRaises(t)
    \/ \E t \in Tasks : BackendResponds(t)
    \/ \E t \in Tasks : Collect(t)
    \/ register_mock_response("c1")

IsolationSpec == IsolationInit /\ [][IsolationNext]_vars

\* ------------------------------------------------------------------------
\* Two tasks that call concurrently, on one component or on two: each task's
\* call_llm runs up to its await (line 93) and from the backend's reply on,
\* and the event loop interleaves the two tasks at the await.  No
\* registration runs.
\* ------------------------------------------------------------------------
TwoTasks == {"t1", "t2"}

ConcurrentInit ==
    /\ llm_config \in Configs
    /\ component_name \in
         {f \in [TwoInstances -> {"validator", "generator"}] : f["c1"] = "validator"}
    /\ \E ctorFails \in BOOLEAN :
         client = [i \in TwoInstances |-> InitClient(llm_config, ctorFails)]
    /\ mock_responses =
         [i \in TwoInstances |-> RegisterDefaultMocks(component_name[i], EmptyRegistry)]
    /\ warnings = [i \in TwoInstances |-> IF InitWarns(llm_config) THEN 1 ELSE 0]
    /\ registered = [i \in TwoInstances |-> <<>>]
    /\ call = [t \in TwoTasks |-> IdleCall]

\* a caller invokes call_llm itself with no fallback key
KeylessCall(t, i) ==
    \E payload \in OpTextInputs, json_response \in BOOLEAN :
        call_llm(t, i, "call_llm",
                 CallArgs(Prompt("caller", 12), payload, PyNone, json_response,
                          PyNone, NoneStr),
                 PyNone, <<>>)

ConcurrentNext ==
    \/ \E t \in TwoTasks, i \in TwoInstances : validate_terraform(t, i)
    \/ \E t \in TwoTasks, i \in TwoInstances : generate_documentation(t, i)
    \/ \E t \in TwoTasks, i \in TwoInstances : KeylessCall(t, i)
    \/ \E t \in TwoTasks : BackendRaises(t)
    \/ \E t \in TwoTasks : BackendResponds(t)
    \/ \E t \in TwoTasks : Collect(t)

ConcurrentSpec == ConcurrentInit /\ [][ConcurrentNext]_vars

\* ------------------------------------------------------------------------
\* One component and one task under a fair backend.  The backend call of
\* line 94 runs in a worker thread (asyncio.to_thread) and the event loop
\* resumes the awaiting task when it returns or raises: a suspended call is
\* resumed once its backend call has ended.  The fourteen operations and
\* direct calls without a key; no registration runs.
\* ------------------------------------------------------------------------
FairNext ==
    \/ \E t \in Tasks, i \in Instances : Operation(t, i)
    \/ \E t \in Tasks, i \in Instances : KeylessCall(t, i)
    \/ \E t \in Tasks : BackendRaises(t)
    \/ \E t \in Tasks : BackendResponds(t)
    \/ \E t \in Tasks : Collect(t)

FairSpec ==
    /\ Init
    /\ [][FairNext]_vars
    /\ \A t \in Tasks : WF_vars(BackendRaises(t) \/ BackendResponds(t))

\* ------------------------------------------------------------------------
\* Properties
\* ------------------------------------------------------------------------
DomainOperations ==
    {"parse_infrastructure_requirements", "extract_context",
     "generate_terraform_template", "analyze_template", "generate_documentation",
     "customize_template", "validate_terraform", "suggest_fixes",
     "check_best_practices", "check_security", "optimize_cost",
     "optimize_performance", "suggest_architecture", "right_size_resources"}

\* the call ended by resolving a fallback (line 87 or line 123)
OnFallbackPath(c) == c.pc = "done" /\ c.path \in {"mock", "fallback"}

\* the registry of the call's component holds an entry for the call's key
KeyRegistered(c) ==
    /\ ~c.args.mock_response_key.isNone
    /\ c.args.mock_response_key.s \in DOMAIN mock_responses[c.inst]

\* the backend replied with a text that is not valid JSON
RepliedNonJson(c) ==
    /\ c.reply.kind = "response"
    /\ c.reply.choices # <<>>
    /\ c.reply.choices[1].t = "str"
    /\ ~Loads(c.reply.choices[1].s).ok

\* the backend call failed: it raised, or its response object is malformed
\* (no choices, null content)
BackendFailed(c) ==
    \/ c.reply.kind = "error"
    \/ /\ c.reply.kind = "response"
       /\ (c.reply.choices = <<>> \/ c.reply.choices[1].t = "None")

\* the component was constructed with use_backend true and an empty endpoint
\* or credential
Unconfigured ==
    /\ llm_config.use_azure_openai
    /\ (llm_config.azure_openai_endpoint = "" \/ llm_config.azure_openai_key = "")

\* the value the no-backend branch returns for the call's request
FallbackValue(c) ==
    GetMockResponse(component_name[c.inst], mock_responses[c.inst],
                    c.args.mock_response_key, c.args.system_prompt,
                    c.user_content, c.args.json_response)

\* C1: a JSON-expecting call whose backend reply is not valid JSON ends in the
\* decode-failure error, never in a returned fallback value.
C1_DecodeFailurePropagates ==
    \A t \in Tasks :
        (call[t].pc = "done" /\ call[t].args.json_response /\ RepliedNonJson(call[t]))
        => /\ call[t].outcome.kind = "raise"
           /\ call[t].outcome.value = DecodeFailure

\* C2: with use_backend true and an empty endpoint or credential, every call
\* returns the fallback result, none ends in an error and none reaches the
\* backend.
C2_UnconfiguredFallsBack ==
    \A t \in Tasks :
        (call[t].pc = "done" /\ Unconfigured)
        => /\ call[t].outcome.kind = "return"
           /\ call[t].outcome.value = FallbackValue(call[t])
           /\ call[t].sent = <<>>

\* C3: with use_backend false, a domain operation whose fallback key is in the
\* registry returns exactly the registered value, whatever the payload.
C3_RegisteredFallbackReturned ==
    \A t \in Tasks :
        (/\ call[t].pc = "done"
         /\ call[t].op \in DomainOperations
         /\ ~llm_config.use_azure_openai
         /\ KeyRegistered(call[t]))
        => /\ call[t].outcome.kind = "return"
           /\ call[t].outcome.value =
                mock_responses[call[t].inst][call[t].args.mock_response_key.s]

\* C3 witness: validate_terraform, backend disabled, returned the payload
\* registered at run time over the built-in default.
C3_Witness ==
    \E t \in Tasks :
        /\ call[t].pc = "done"
        /\ call[t].op = "validate_terraform"
        /\ ~llm_config.use_azure_openai
        /\ call[t].template_files # PyDict(<<>>)
        /\ call[t].outcome.value = CustomPayload

\* C4: when the backend call fails (it raises, or its response has no choices
\* or a null content), call_llm returns what the no-backend branch returns for
\* the same request and registry.
C4_BackendFailureFallsBack ==
    \A t \in Tasks :
        (call[t].pc = "done" /\ BackendFailed(call[t]))
        => /\ call[t].outcome.kind = "return"
           /\ call[t].outcome.value = FallbackValue(call[t])

\* C5: a call ends with a result value or with the decode-failure error; no
\* other error reaches the caller.
C5_OnlyDecodeFailureEscapes ==
    \A t \in Tasks :
        call[t].pc = "done"
        => \/ call[t].outcome.kind = "return"
           \/ call[t].outcome.value = DecodeFailure

\* C6: customize_template and suggest_fixes return a mapping that has every
\* filename key of the input template_files, on every path.
C6_PassThroughKeys ==
    \A t \in Tasks :
        (/\ call[t].pc = "done"
         /\ call[t].op \in {"customize_template", "suggest_fixes"}
         /\ call[t].outcome.kind = "return")
        => /\ call[t].outcome.value.t = "dict"
           /\ DictKeySet(call[t].template_files) \subseteq DictKeySet(call[t].outcome.value)

\* the component's built-in keys
BuiltinKeys(i) == DOMAIN RegisterDefaultMocks(component_name[i], EmptyRegistry)

\* C7: once register_mock_response(key, value) has run for a key that has a
\* built-in default, a fallback-path call using that key returns the value of
\* the most recent registration, not the built-in default.
C7_LatestRegistrationWins ==
    \A t \in Tasks :
        (/\ OnFallbackPath(call[t])
         /\ registered[call[t].inst] # <<>>
         /\ registered[call[t].inst][1][1] \in BuiltinKeys(call[t].inst)
         /\ call[t].args.mock_response_key = SomeStr(registered[call[t].inst][1][1]))
        => /\ call[t].outcome.kind = "return"
           /\ call[t].outcome.value = registered[call[t].inst][1][2]

\* C7 witness: after a backend failure, validate_terraform returned the text
\* registered last under its key, which is not the built-in default.
C7_Witness ==
    \E t \in Tasks :
        /\ call[t].pc = "done"
        /\ call[t].path = "fallback"
        /\ call[t].op = "validate_terraform"
        /\ registered[call[t].inst] = << <<"validate_terraform", PyStr(Txt.ok)>> >>
        /\ call[t].outcome.value = PyStr(Txt.ok)
        /\ call[t].outcome.value # Mock_validate_terraform

\* the call resolved a fallback for a key the registry has no entry for
NoEntryFallback(c) == OnFallbackPath(c) /\ ~KeyRegistered(c)

\* the payload preview of the placeholder a call returned (the placeholder is
\* a dict when JSON is expected, else the JSON text of that dict)
ReturnedPreview(c) ==
    LET placeholder == IF c.args.json_response THEN c.outcome.value
                       ELSE Loads(c.outcome.value.s).v
    IN  DictGet(placeholder, Txt.user_content_preview).s

\* the first 50 characters of u and an ellipsis when u is longer than 50
\* characters, else u
First50(u) ==
    IF Len(u) > 50 THEN [k \in 1..50 |-> u[k]] \o <<".", ".", ".">> ELSE u

\* C8: on the fallback path with no entry for the key, the placeholder's
\* preview is the first 50 characters of the serialized payload plus an
\* ellipsis when that payload is longer than 50, else the payload unchanged.
C8_PreviewTruncation ==
    \A t \in Tasks :
        NoEntryFallback(call[t])
        => /\ call[t].outcome.kind = "return"
           /\ ReturnedPreview(call[t]) = First50(call[t].user_content)

\* C8 witness: a placeholder whose payload of more than 50 characters was cut.
C8_Witness ==
    \E t \in Tasks :
        /\ NoEntryFallback(call[t])
        /\ Len(call[t].user_content) > 50
        /\ Len(ReturnedPreview(call[t])) = 53

\* C9: for a dict payload that resolves to the placeholder, the preview is
\* computed from json.dumps of the dict, the string the backend is sent.
C9_PreviewOfSerializedDict ==
    \A t \in Tasks :
        (NoEntryFallback(call[t]) /\ call[t].args.user_content.t = "dict")
        => /\ ReturnedPreview(call[t]) = First50(Dumps(call[t].args.user_content))
           /\ \A k \in 1..Len(call[t].sent) :
                call[t].sent[k].user_content = Dumps(call[t].args.user_content)

\* C9 witness: a dict payload was sent to the backend, the backend failed and
\* the placeholder previews the serialized dict.
C9_Witness ==
    \E t \in Tasks :
        /\ NoEntryFallback(call[t])
        /\ call[t].path = "fallback"
        /\ call[t].args.user_content.t = "dict"
        /\ call[t].sent # <<>>
        /\ ReturnedPreview(call[t])[1] = "{"

\* C10: a call that returns a value returns a structured value when JSON is
\* expected and raw text when text is expected.
C10_ResultMatchesFormat ==
    \A t \in Tasks :
        (call[t].pc = "done" /\ call[t].outcome.kind = "return")
        => IF call[t].args.json_response
           THEN call[t].outcome.value.t \in {"dict", "list"}
           ELSE call[t].outcome.value.t = "str"

\* the backend replied with a response whose first choice carries a text
RepliedText(c) ==
    /\ c.reply.kind = "response"
    /\ c.reply.choices # <<>>
    /\ c.reply.choices[1].t = "str"

\* C11: a text-format call whose backend reply carries a text returns that
\* text exactly as received.
C11_TextReplyUnchanged ==
    \A t \in Tasks :
        (call[t].pc = "done" /\ ~call[t].args.json_response /\ RepliedText(call[t]))
        => /\ call[t].path = "backend"
           /\ call[t].outcome = Return(call[t].reply.choices[1])

\* C11 witness: generate_documentation got a reply that is the text of a JSON
\* object and returned it as a text, unparsed.
C11_Witness ==
    \E t \in Tasks :
        /\ call[t].pc = "done"
        /\ call[t].op = "generate_documentation"
        /\ call[t].reply = BackendResponse(<<PyStr(Dumps(ReplyObject))>>)
        /\ call[t].outcome.value = PyStr(Dumps(ReplyObject))

\* the value an outbound request carries for an optional argument: the call's
\* own when the call supplies one, else the configuration default
SuppliedOr(arg, default) == IF arg.t # "None" THEN arg ELSE default

\* C12: every outbound request carries the call's temperature when the call
\* supplies one, else the configuration default, and the call's max_tokens
\* when supplied, else the configuration default.
C12_SamplingArguments ==
    \A t \in Tasks : \A k \in 1..Len(call[t].sent) :
        /\ call[t].sent[k].temperature =
             SuppliedOr(call[t].args.temperature, ConfigDefaultTemperature)
        /\ call[t].sent[k].max_tokens =
             SuppliedOr(call[t].args.max_tokens, PyInt(ConfigMaxTokens))

\* C13: an outbound request carries the "json_object" response format exactly
\* when the call expects JSON; a text-format call carries no response format.
C13_JsonConstraintIffJson ==
    \A t \in Tasks : \A k \in 1..Len(call[t].sent) :
        /\ call[t].sent[k].response_format \in {"json_object", "None"}
        /\ call[t].sent[k].response_format = "json_object" <=> call[t].args.json_response

\* C13 witness: generate_documentation is suspended in a backend call whose
\* request carries no response format.
C13_Witness ==
    \E t \in Tasks :
        /\ call[t].pc = "awaiting"
        /\ call[t].op = "generate_documentation"
        /\ Len(call[t].sent) = 1
        /\ call[t].sent[1].response_format = "None"

\* the backend branch is taken for calls on instance i: the client was
\* constructed and use_backend is true
BackendBranch(i) == client[i] = "client" /\ llm_config.use_azure_openai

\* C14: an invocation hands exactly one request to the backend when the
\* backend branch is taken and none otherwise; a call that ended after a
\* backend failure or a decode failure made no second request.
C14_OneOutboundCall ==
    \A t \in Tasks :
        call[t].pc \in {"awaiting", "done"}
        => Len(call[t].sent) = IF BackendBranch(call[t].inst) THEN 1 ELSE 0

\* C14 witness: a call that fell back after the backend raised has made one
\* request.
C14_Witness ==
    \E t \in Tasks :
        /\ call[t].pc = "done"
        /\ call[t].path = "fallback"
        /\ call[t].reply.kind = "error"
        /\ Len(call[t].sent) = 1

\* the name under which each optimizer operation merges its optional argument
OptionalName(op) ==
    CASE op = "optimize_cost"        -> Txt.budget_constraint
      [] op = "optimize_performance" -> Txt.performance_targets
      [] op = "right_size_resources" -> Txt.utilization_data

\* C15: optimize_cost, optimize_performance and right_size_resources hand
\* call_llm the serialized template_files together with the optional argument
\* whenever that argument is not None, and template_files alone when it is.
C15_OptionalMerged ==
    \A t \in Tasks :
        (/\ call[t].pc # "idle"
         /\ call[t].op \in {"optimize_cost", "optimize_performance",
                            "right_size_resources"})
        => call[t].args.user_content =
             PyStr(Dumps(
                IF call[t].inputs[2].t # "None"
                THEN Pair(Txt.template_files, call[t].inputs[1],
                          OptionalName(call[t].op), call[t].inputs[2])
                ELSE Single(Txt.template_files, call[t].inputs[1])))

\* C16: extract_context hands call_llm the text followed by the serialized
\* existing resources whenever existing_resources is not None, and the text
\* alone when it is.
C16_ExistingResourcesAppended ==
    \A t \in Tasks :
        (call[t].pc # "idle" /\ call[t].op = "extract_context")
        => call[t].args.user_content =
             IF call[t].inputs[2].t # "None"
             THEN PyStr(call[t].inputs[1].s \o Txt.existing_resources_prefix
                        \o Dumps(call[t].inputs[2]))
             ELSE call[t].inputs[1]

\* C17: every value check_best_practices returns is a mapping whose score is
\* an integer between 0 and 100, on the backend path and on the fallback path.
C17_ScoreInRange ==
    \A t \in Tasks :
        (/\ call[t].pc = "done"
         /\ call[t].op = "check_best_practices"
         /\ call[t].outcome.kind = "return")
        => /\ call[t].outcome.value.t = "dict"
           /\ DictHas(call[t].outcome.value, Txt.score)
           /\ DictGet(call[t].outcome.value, Txt.score).t = "int"
           /\ DictGet(call[t].outcome.value, Txt.score).n \in 0..100

\* the three files a generated template must have
RequiredTemplateFiles == {Txt.main_tf, Txt.variables_tf, Txt.outputs_tf}

\* C18: every mapping generate_terraform_template returns has the keys
\* main.tf, variables.tf and outputs.tf, on the backend path and on the
\* fallback path.
C18_RequiredTemplateKeys ==
    \A t \in Tasks :
        (/\ call[t].pc = "done"
         /\ call[t].op = "generate_terraform_template"
         /\ call[t].outcome.kind = "return"
         /\ call[t].outcome.value.t = "dict")
        => RequiredTemplateFiles \subseteq DictKeySet(call[t].outcome.value)

\* the VPC resource of a parsed requirements object
VpcResource(v) ==
    LET rs == DictGet(v, Txt.resources).items
    IN  rs[CHOOSE k \in 1..Len(rs) : DictGet(rs[k], Txt.type) = PyStr(Txt.vpc)]

\* C19: with use_backend false and no run-time registration on the parser,
\* parse_infrastructure_requirements returns the built-in sample for any
\* text: its provider is "aws" and its VPC resource has two subnets.
C19_BuiltinSampleReturned ==
    \A t \in Tasks :
        (/\ call[t].pc = "done"
         /\ call[t].op = "parse_infrastructure_requirements"
         /\ ~llm_config.use_azure_openai
         /\ registered[call[t].inst] = <<>>)
        => /\ call[t].outcome = Return(Mock_parse_requirements)
           /\ DictGet(call[t].outcome.value, Txt.provider) = PyStr(Txt.aws)
           /\ Len(DictGet(VpcResource(call[t].outcome.value), Txt.subnets).items) = 2

\* C19 witness: the sample was returned for a non-empty text with the backend
\* disabled.
C19_Witness ==
    \E t \in Tasks :
        /\ call[t].pc = "done"
        /\ call[t].op = "parse_infrastructure_requirements"
        /\ ~llm_config.use_azure_openai
        /\ registered[call[t].inst] = <<>>
        /\ call[t].inputs[1].s # <<>>
        /\ call[t].outcome.value = Mock_parse_requirements

\* C20: a step that registers nothing on instance j leaves j's registry as
\* it was, whatever is registered on another instance in that step; and a
\* fallback-path call that ends on j returns what j's own registry resolves.
C20_RegistryIsolation ==
    [][\A j \in DOMAIN mock_responses :
          /\ registered'[j] = registered[j] => mock_responses'[j] = mock_responses[j]
          /\ \A t \in Tasks :
               (call'[t] # call[t] /\ OnFallbackPath(call'[t]) /\ call'[t].inst = j)
               => call'[t].outcome =
                    Return(GetMockResponse(component_name[j], mock_responses[j],
                               call'[t].args.mock_response_key,
                               call'[t].args.system_prompt, call'[t].user_content,
                               call'[t].args.json_response))]_vars

\* C20 witness: two validators; "validate_terraform" was registered on c1 with
\* the custom payload and nothing was registered on c2; validate_terraform on
\* c2 returned the built-in default.
C20_Witness ==
    \E t \in Tasks :
        /\ component_name = [i \in TwoInstances |-> "validator"]
        /\ registered["c1"] = << <<"validate_terraform", CustomPayload>> >>
        /\ mock_responses["c1"]["validate_terraform"] = CustomPayload
        /\ registered["c2"] = <<>>
        /\ call[t].pc = "done"
        /\ call[t].inst = "c2"
        /\ call[t].op = "validate_terraform"
        /\ OnFallbackPath(call[t])
        /\ call[t].outcome.value = Mock_validate_terraform

\* C21: no step removes a key from a component's registry: the built-in keys
\* and every key registered since stay present.
C21_RegistryNeverShrinks ==
    [][\A i \in DOMAIN mock_responses :
          DOMAIN mock_responses[i] \subseteq DOMAIN mock_responses'[i]]_vars

\* C21 witness: after registrations of a new key and of the empty key and
\* after a call, the registry holds both and every built-in key.
C21_Witness ==
    \E t \in Tasks :
        /\ call[t].pc = "done"
        /\ registered[call[t].inst] = << <<"", CustomPayload>> >>
        /\ {"", "custom"} \cup BuiltinKeys(call[t].inst)
             \subseteq DOMAIN mock_responses[call[t].inst]

\* C22: a step of an operation call (its start, the backend's reply, the
\* caller taking the outcome) leaves every registry as it was, and a step
\* that changes a registry is a registration of the registered entry.
C22_CallsLeaveRegistry ==
    [][/\ (\E t \in DOMAIN call : call'[t] # call[t])
             => mock_responses' = mock_responses
       /\ \A i \in DOMAIN mock_responses :
            mock_responses'[i] # mock_responses[i]
            => /\ registered'[i] # <<>>
               /\ mock_responses'[i] =
                    RegistrySet(mock_responses[i], registered'[i][1][1],
                                registered'[i][1][2])]_vars

\* C22 witness: a call with a key of its own ended on the backend path with
\* nothing registered at run time: the registry is the one construction built.
C22_Witness ==
    \E t \in Tasks :
        /\ call[t].pc = "done"
        /\ call[t].path = "backend"
        /\ call[t].args.mock_response_key = SomeStr("custom")
        /\ registered[call[t].inst] = <<>>
        /\ mock_responses[call[t].inst] =
             RegisterDefaultMocks(component_name[call[t].inst], EmptyRegistry)

\* constructing the backend client failed at construction: use_backend is
\* true, the endpoint and the credential are set, and the component has no
\* client
ClientConstructionFailed(i) ==
    /\ llm_config.use_azure_openai
    /\ llm_config.azure_openai_endpoint # ""
    /\ llm_config.azure_openai_key # ""
    /\ client[i] = "None"

\* C23: a component whose client construction failed is constructed all the
\* same (it has its built-in registry), and every call on it returns the
\* fallback result and hands nothing to the backend.
C23_ConstructionFailureFallsBack ==
    \A i \in DOMAIN client :
        ClientConstructionFailed(i)
        => /\ BuiltinKeys(i) \subseteq DOMAIN mock_responses[i]
           /\ \A t \in DOMAIN call :
                (call[t].pc # "idle" /\ call[t].inst = i)
                => /\ call[t].pc = "done"
                   /\ call[t].path = "mock"
                   /\ call[t].outcome = Return(FallbackValue(call[t]))
                   /\ call[t].sent = <<>>

\* C23 witness: check_security on a validator whose client construction
\* failed returned the built-in fallback.
C23_Witness ==
    \E t \in Tasks :
        /\ call[t].pc = "done"
        /\ ClientConstructionFailed(call[t].inst)
        /\ call[t].op = "check_security"
        /\ call[t].outcome.value = Mock_check_security

\* C24: a component constructed with use_backend true and an empty endpoint
\* or credential has logged the "credentials not provided" warning once, at
\* construction; calls do not add to it.
C24_WarnedOnce ==
    \A i \in DOMAIN warnings : Unconfigured => warnings[i] = 1

\* C24 witness: a call on such a component has ended and the warning count
\* is the one of construction.
C24_Witness ==
    \E t \in Tasks :
        /\ Unconfigured
        /\ call[t].pc = "done"
        /\ warnings[call[t].inst] = 1

\* the outcome of call c had it run alone: what call_llm computes from the
\* configuration, the component's client and registry, c's request and the
\* backend's reply to c
AloneOutcome(c) ==
    LET name == component_name[c.inst]
        reg == mock_responses[c.inst]
        u == Serialize(c.args.user_content)
        m == UseMock(client[c.inst], llm_config)
    IN  IF m.kind = "raise" THEN m
        ELSE IF m.value.b
        THEN Return(GetMockResponse(name, reg, c.args.mock_response_key,
                                    c.args.system_prompt, u, c.args.json_response))
        ELSE BackendOutcome(name, reg, c.args, u, c.reply)

\* the requests call c hands to the backend had it run alone
AloneSent(c) ==
    IF BackendBranch(c.inst)
    THEN <<OutboundRequest(llm_config, component_name[c.inst], c.args,
                           Serialize(c.args.user_content))>>
    ELSE <<>>

\* C25: with calls interleaved and no registration, every call sends what it
\* would send alone and ends with the outcome it would have alone.
C25_CallsIndependent ==
    \A t \in DOMAIN call :
        /\ call[t].pc \in {"awaiting", "done"} => call[t].sent = AloneSent(call[t])
        /\ call[t].pc = "done" => call[t].outcome = AloneOutcome(call[t])

\* C25 witness: two calls with different payloads were suspended together on
\* one component; t1's backend call failed and t1 returned the placeholder
\* of its own payload while t2 is still suspended.
C25_Witness ==
    /\ call["t1"].pc = "done"
    /\ call["t2"].pc = "awaiting"
    /\ call["t1"].inst = call["t2"].inst
    /\ call["t1"].op = "call_llm"
    /\ call["t2"].op = "call_llm"
    /\ call["t1"].user_content # call["t2"].user_content
    /\ call["t1"].path = "fallback"
    /\ ReturnedPreview(call["t1"]) = Preview(call["t1"].user_content)

\* a step in which call_llm is entered by task t
Starts(t) == call[t].pc = "idle" /\ call'[t].pc # "idle"

\* a step in which the backend call of task t returns or fails
BackendEnds(t) == call[t].pc = "awaiting" /\ call'[t] # call[t]

\* C26: a call that takes the no-backend branch ends in the step that enters
\* it; a call that takes the backend branch makes one request, ends in the
\* step that handles the backend's return or failure, with a result or the
\* decode-failure error, and every suspended call does end.
C26_CallTerminates ==
    /\ [][\A t \in Tasks :
            /\ Starts(t) =>
                 IF BackendBranch(call'[t].inst)
                 THEN call'[t].pc = "awaiting" /\ Len(call'[t].sent) = 1
                 ELSE call'[t].pc = "done" /\ call'[t].sent = <<>>
            /\ BackendEnds(t) =>
                 /\ call'[t].pc = "done"
                 /\ call'[t].sent = call[t].sent
                 /\ \/ call'[t].outcome.kind = "return"
                    \/ call'[t].outcome.value = DecodeFailure]_vars
    /\ \A t \in Tasks : (call[t].pc = "awaiting") ~> (call[t].pc = "done")

\* C26 witness: a call ended with a fallback value after its one backend call
\* returned a text that is not JSON.
C26_Witness ==
    \E t \in Tasks :
        /\ call[t].pc = "done"
        /\ call[t].args.json_response
        /\ RepliedNonJson(call[t])
        /\ Len(call[t].sent) = 1
        /\ call[t].path = "fallback"
        /\ call[t].outcome.kind = "return"

\* the placeholder call c would get (lines 137-145)
Placeholder(c) ==
    LET g == GenericMock(component_name[c.inst], c.args.system_prompt, c.user_content)
    IN  IF c.args.json_response THEN g ELSE PyStr(Dumps(g))

\* C27: the fallback key of every domain operation is one of the keys its
\* component registers at construction; so on a component with no run-time
\* registration a domain operation's fallback is the built-in value of its
\* key, never the generic placeholder.
C27_DomainKeysBuiltin ==
    \A t \in Tasks :
        (call[t].pc # "idle" /\ call[t].op \in DomainOperations)
        => /\ ~call[t].args.mock_response_key.isNone
           /\ call[t].args.mock_response_key.s \in BuiltinKeys(call[t].inst)
           /\ (OnFallbackPath(call[t]) /\ registered[call[t].inst] = <<>>)
                => /\ call[t].outcome.value =
                        RegisterDefaultMocks(component_name[call[t].inst], EmptyRegistry)
                            [call[t].args.mock_response_key.s]
                   /\ call[t].outcome.value # Placeholder(call[t])

\* C27 witness: suggest_architecture on a fresh optimizer fell back after a
\* backend failure and returned the built-in value.
C27_Witness ==
    \E t \in Tasks :
        /\ call[t].pc = "done"
        /\ call[t].op = "suggest_architecture"
        /\ call[t].path = "fallback"
        /\ registered[call[t].inst] = <<>>
        /\ call[t].outcome.value = Mock_suggest_architecture

\* the latest registration on the call's component is <<key, v>> for the
\* call's key and the registry did not hold v for that key when the call
\* began: register_mock_response(key, v) ran while the call was suspended
RegisteredWhileSuspended(c) ==
    /\ c.pc = "done"
    /\ c.path = "fallback"
    /\ registered[c.inst] # <<>>
    /\ registered[c.inst][1][1] # ""
    /\ c.args.mock_response_key = SomeStr(registered[c.inst][1][1])
    /\ c.at_start # <<registered[c.inst][1][2]>>

\* C28: a call whose backend call failed after register_mock_response(key, v)
\* ran during its suspension returns v, not the value held when it began.
C28_LookupAtResolution ==
    \A t \in Tasks :
        RegisteredWhileSuspended(call[t])
        => call[t].outcome = Return(registered[call[t].inst][1][2])

\* C28 witness: validate_terraform began with the built-in default under its
\* key, the custom payload was registered while it was suspended, the backend
\* failed and the call returned the custom payload.
C28_Witness ==
    \E t \in Tasks :
        /\ RegisteredWhileSuspended(call[t])
        /\ call[t].op = "validate_terraform"
        /\ call[t].at_start = <<Mock_validate_terraform>>
        /\ call[t].reply.kind = "error"
        /\ call[t].outcome.value = CustomPayload

\* C29 as stated: the fallback key of every domain operation is the
\* operation's own name.
C29_KeyIsOperationName ==
    \A t \in Tasks :
        (call[t].pc # "idle" /\ call[t].op \in DomainOperations)
        => call[t].args.mock_response_key = SomeStr(call[t].op)

\* the fallback key each domain operation uses
FallbackKeyOf(op) ==
    CASE op = "parse_infrastructure_requirements" -> "parse_requirements"
      [] op = "generate_terraform_template"       -> "generate_template"
      [] OTHER                                    -> op

\* C29 amended: parse_infrastructure_requirements uses the key
\* "parse_requirements", generate_terraform_template the key
\* "generate_template" and every other domain operation its own name; a
\* value registered last under the key an operation uses is what the
\* operation returns on the fallback path.
C29_KeyPerOperation ==
    \A t \in Tasks :
        (call[t].pc # "idle" /\ call[t].op \in DomainOperations)
        => /\ call[t].args.mock_response_key = SomeStr(FallbackKeyOf(call[t].op))
           /\ (/\ OnFallbackPath(call[t])
               /\ registered[call[t].inst] # <<>>
               /\ registered[call[t].inst][1][1] = FallbackKeyOf(call[t].op))
              => call[t].outcome = Return(registered[call[t].inst][1][2])

\* C29 witness: parse_infrastructure_requirements returned the custom payload
\* registered under "parse_requirements".
C29_Witness ==
    \E t \in Tasks :
        /\ call[t].pc = "done"
        /\ call[t].op = "parse_infrastructure_requirements"
        /\ OnFallbackPath(call[t])
        /\ registered[call[t].inst] = << <<"parse_requirements", CustomPayload>> >>
        /\ call[t].outcome.value = CustomPayload

\* C30: on the fallback path a call whose key is None or the empty string
\* gets the generic placeholder, whatever is registered under the empty key;
\* a call whose key is a non-empty registered key gets the registered value,
\* also when that value is None or empty.
C30_EmptyKeyNeverLooksUp ==
    \A t \in Tasks :
        OnFallbackPath(call[t])
        => LET c == call[t]
               key == c.args.mock_response_key
           IN  /\ (key.isNone \/ key.s = "")
                    => c.outcome = Return(Placeholder(c))
               /\ (~key.isNone /\ key.s # "" /\ key.s \in DOMAIN mock_responses[c.inst])
                    => c.outcome = Return(mock_responses[c.inst][key.s])

\* C30 witness: a value is registered under the empty key and a call with the
\* empty key, expecting JSON, got the placeholder.
C30_Witness ==
    \E t \in Tasks :
        /\ OnFallbackPath(call[t])
        /\ call[t].args.mock_response_key = SomeStr("")
        /\ call[t].args.json_response
        /\ "" \in DOMAIN mock_responses[call[t].inst]
        /\ mock_responses[call[t].inst][""] = CustomPayload
        /\ DictHas(call[t].outcome.value, Txt.user_content_preview)

\* a call with a non-empty key under which None is registered returned None
C30_NullValueReturned ==
    \E t \in Tasks :
        /\ OnFallbackPath(call[t])
        /\ call[t].args.mock_response_key = SomeStr("custom")
        /\ registered[call[t].inst] = << <<"custom", PyNone>> >>
        /\ call[t].outcome = Return(PyNone)

====
